---- MODULE Spec2Model ----
(***************************************************************************)
(* Model of the REST client (src/api/client.rs), of the cache-fronted      *)
(* resource service (src/core/service.rs), and of the library around them: *)
(* users and permissions (src/models/user.rs), the in-memory repositories  *)
(* (src/models/persistence.rs), the request builder (src/api/request.rs),  *)
(* the processor registry (src/core/processor.rs) and the helpers of       *)
(* src/utils.                                                              *)
(*                                                                         *)
(* Conventions.                                                            *)
(*   Option<T>        <<>> is None, <<v>> is Some(v).                      *)
(*   String           a sequence of pieces; format! is concatenation.      *)
(*   Result<T, E>     [ok |-> TRUE, val |-> v] or [ok |-> FALSE, err |-> e]*)
(*   HeaderMap        a set of <<name, value>> pairs (an unordered         *)
(*                    multimap; reqwest's header() appends).               *)
(*   HashMap<K, V>    a function from the set of its keys.                 *)
(***************************************************************************)
EXTENDS Integers, Sequences, FiniteSets, TLC

VARIABLES
    config,     \* ApiClient.config: [api_url, api_key]
    wire,       \* ApiClient: the HTTP requests the last client call put on the wire
    outcome,    \* ApiClient: what the last client call returned
    now,        \* chrono::Utc::now(), in seconds since the epoch
    cache,      \* ResourceService.cache: [resources, last_updated]
    call,       \* ResourceService: the last service call and what it returned
    lock,       \* the RwLock around the cache: [readers, writer]
    pc,         \* concurrent service calls: where each task stands
    task,       \* concurrent service calls: each task's locals
    user,       \* a User, and what all_permissions() last returned for it
    retry,      \* retry_with_backoff: its arguments, locals and history
    trunc,      \* truncate_string: its arguments and what it returned
    checks,     \* validate_all: its argument and what it returned
    builder,    \* an ApiRequest under construction, and the step that built it
    repo,       \* an in-memory repository, its calls so far and the last result
    registry,   \* a ProcessorRegistry, its registrations and the last process()
    behind      \* Option: the cached list was answered before a returned write

clientVars == <<config, wire, outcome>>
serviceVars == <<now, cache, call>>
taskVars == <<lock, pc, task>>
libVars == <<user, retry, trunc, checks, builder, repo, registry>>
appVars == <<config, wire, outcome, now, cache, call, lock, pc, task>>
vars == <<config, wire, outcome, now, cache, call, lock, pc, task,
          user, retry, trunc, checks, builder, repo, registry, behind>>

(***************************************************************************)
(* Option                                                                  *)
(***************************************************************************)
None == <<>>
Some(v) == <<v>>
IsSome(o) == o # <<>>
Unwrap(o) == o[1]

(***************************************************************************)
(* models/resource.rs: Resource.  name is a sequence of characters, data   *)
(* is the set of keys of ResourceData.data.  description, metadata, the    *)
(* timestamps and owner_id are read by nothing modelled here.              *)
(***************************************************************************)
Resource(id, name, rtype, data) ==
    [id |-> id, name |-> name, resource_type |-> rtype, data |-> data]

\* The values a body is deserialized into (the T of get::<T>): a Resource,
\* a Vec<Resource>, a bool.  One record shape for all of them.
Unit == [kind |-> "unit", items |-> <<>>, flag |-> FALSE]
OneResource(r) == [kind |-> "resource", items |-> <<r>>, flag |-> FALSE]
ResourceList(rs) == [kind |-> "list", items |-> rs, flag |-> FALSE]
Bool(b) == [kind |-> "bool", items |-> <<>>, flag |-> b]

(***************************************************************************)
(* api/error.rs: ApiError.  Every variant is [tag, code, msg].             *)
(***************************************************************************)
NoError == [tag |-> "none", code |-> 0, msg |-> <<>>]
RequestError(msg) == [tag |-> "RequestError", code |-> 0, msg |-> msg]
ResponseParseError(msg) == [tag |-> "ResponseParseError", code |-> 0, msg |-> msg]
ResourceNotFound == [tag |-> "ResourceNotFound", code |-> 0, msg |-> <<>>]
Unauthorized == [tag |-> "Unauthorized", code |-> 0, msg |-> <<>>]
Forbidden == [tag |-> "Forbidden", code |-> 0, msg |-> <<>>]
RateLimitExceeded == [tag |-> "RateLimitExceeded", code |-> 0, msg |-> <<>>]
UnsupportedMethod == [tag |-> "UnsupportedMethod", code |-> 0, msg |-> <<>>]
ServerError(code, text) == [tag |-> "ServerError", code |-> code, msg |-> text]

\* Result<T, ApiError>
Ok(v) == [ok |-> TRUE, val |-> v, err |-> NoError]
Err(e) == [ok |-> FALSE, val |-> Unit, err |-> e]

\* format!("{}", n) of an unsigned number
Digit(d) == <<"0", "1", "2", "3", "4", "5", "6", "7", "8", "9">>[d + 1]
RECURSIVE FmtNum(_)
FmtNum(n) == IF n < 10 THEN <<Digit(n)>> ELSE FmtNum(n \div 10) \o <<Digit(n % 10)>>

\* #[error("...")] of ApiError: its Display text
ApiErrorDisplay(e) ==
    CASE e.tag = "RequestError" -> <<"Request error: ">> \o e.msg
      [] e.tag = "ResponseParseError" -> <<"Failed to parse API response: ">> \o e.msg
      [] e.tag = "ResourceNotFound" -> <<"Resource not found">>
      [] e.tag = "Unauthorized" -> <<"Authentication required">>
      [] e.tag = "Forbidden" -> <<"Access forbidden">>
      [] e.tag = "RateLimitExceeded" -> <<"API rate limit exceeded">>
      [] e.tag = "ServerError" -> <<"Server error ">> \o FmtNum(e.code) \o <<": ">> \o e.msg
      [] e.tag = "UnsupportedMethod" -> <<"Unsupported HTTP method">>
      [] OTHER -> <<"Unknown error: ">> \o e.msg

(***************************************************************************)
(* serde_json: the JSON text of a value, and the value of a JSON text.     *)
(* The keys of a map are written in the order of KeyOrder.                *)
(***************************************************************************)
KeyOrder == <<"content", "email">>

KeysJson(data) == SelectSeq(KeyOrder, LAMBDA k : k \in data)

ResourceJson(r) ==
    <<"{", "id=", r.id, "name=">> \o r.name
        \o <<"type=", r.resource_type, "data=">> \o KeysJson(r.data) \o <<"}">>

RECURSIVE ListJson(_)
ListJson(rs) ==
    IF rs = <<>> THEN <<>> ELSE ResourceJson(Head(rs)) \o ListJson(Tail(rs))

ToJson(v) ==
    CASE v.kind = "resource" -> ResourceJson(v.items[1])
      [] v.kind = "list" -> <<"[">> \o ListJson(v.items) \o <<"]">>
      [] v.kind = "bool" -> IF v.flag THEN <<"true">> ELSE <<"false">>
      [] OTHER -> <<"null">>

(***************************************************************************)
(* The bounded universe: resources upstream can answer with, and replies.  *)
(***************************************************************************)
MaxListLen == 2

ResA == Resource("a", <<"x">>, "project", {})
ResB == Resource("b", <<"x", "y">>, "document", {"content"})
KnownResources == {ResA, ResB}
Ids == {"a", "b"}

RECURSIVE SeqsUpTo(_, _)
SeqsUpTo(S, n) ==
    IF n = 0 THEN {<<>>}
    ELSE SeqsUpTo(S, n - 1)
            \cup {Append(q, x) : q \in {t \in SeqsUpTo(S, n - 1) : Len(t) = n - 1}, x \in S}

KnownLists == SeqsUpTo(KnownResources, MaxListLen)

ValuesOf(kind) ==
    CASE kind = "resource" -> {OneResource(r) : r \in KnownResources}
      [] kind = "list" -> {ResourceList(rs) : rs \in KnownLists}
      [] kind = "bool" -> {Bool(TRUE), Bool(FALSE)}
      [] OTHER -> {}

\* response.json::<T>(): the value of type `kind` whose JSON text this is
FromJson(kind, text) ==
    IF \E v \in ValuesOf(kind) : ToJson(v) = text
    THEN Ok(CHOOSE v \in ValuesOf(kind) : ToJson(v) = text)
    ELSE Err(ResponseParseError(<<"decode error">>))

\* A reply of upstream: send() failed, or a response with a status, headers
\* and a body whose bytes arrive (readable) or not.
Reply(sent, status, headers, body, readable) ==
    [sent |-> sent, status |-> status, headers |-> headers, body |-> body,
     readable |-> readable]

SendFailure == Reply(FALSE, 0, {}, <<>>, FALSE)
ErrorBody == <<"error">>
ReplyHeaders == {<<"content-type", <<"application/json">>>>}

(***************************************************************************)
(* api/client.rs: ApiClient                                                *)
(***************************************************************************)
Request(method, url, headers, query, body) ==
    [method |-> method, url |-> url, headers |-> headers, query |-> query,
     body |-> body]

\* Mutant of AuthHeaders: the key is sent without the "Bearer " scheme
AuthHeadersNoScheme(cfg) ==
    IF IsSome(cfg.api_key)
    THEN {<<"Authorization", <<Unwrap(cfg.api_key)>>>>}
    ELSE {}

\* if let Some(api_key) = &self.config.api_key { request.header("Authorization", ...) }
AuthHeaders(cfg) ==
    IF IsSome(cfg.api_key)
    THEN {<<"Authorization", <<"Bearer ", Unwrap(cfg.api_key)>>>>}
    ELSE {}

\* RequestBuilder::json: the body, and Content-Type unless one is set already
JsonHeaders(headers) ==
    IF \E h \in headers : h[1] = "Content-Type" THEN headers
    ELSE headers \cup {<<"Content-Type", <<"application/json">>>>}

\* format!("{}/{}", self.config.api_url, endpoint)
UrlOf(cfg, endpoint) == cfg.api_url \o <<"/">> \o endpoint

BuildGet(cfg, endpoint) ==
    Request("GET", UrlOf(cfg, endpoint), AuthHeaders(cfg), {}, None)

\* Mutant of BuildPost: the call to .json(body) is missing
BuildPostNoBody(cfg, endpoint, body) ==
    Request("POST", UrlOf(cfg, endpoint), AuthHeaders(cfg), {}, None)

BuildPost(cfg, endpoint, body) ==
    Request("POST", UrlOf(cfg, endpoint), JsonHeaders(AuthHeaders(cfg)), {},
            Some(ToJson(body)))

SuccessStatus(status) == status \in {200, 201, 202}

\* response.text().await.unwrap_or_else(|_| "Unknown error".to_string())
ErrorText(reply) == IF reply.readable THEN reply.body ELSE <<"Unknown error">>

\* response.json::<T>().await.map_err(ResponseParseError)
ParseBody(kind, reply) ==
    IF reply.readable THEN FromJson(kind, reply.body)
    ELSE Err(ResponseParseError(<<"body error">>))

\* Mutant of ProcessResponse: every 2xx status is taken for a success
ProcessResponseAnySuccess(kind, reply) ==
    CASE reply.status \in 200..299 -> ParseBody(kind, reply)
      [] reply.status = 404 -> Err(ResourceNotFound)
      [] reply.status = 401 -> Err(Unauthorized)
      [] reply.status = 403 -> Err(Forbidden)
      [] reply.status = 429 -> Err(RateLimitExceeded)
      [] OTHER -> Err(ServerError(reply.status, ErrorText(reply)))

ProcessResponse(kind, reply) ==
    CASE SuccessStatus(reply.status) -> ParseBody(kind, reply)
      [] reply.status = 404 -> Err(ResourceNotFound)
      [] reply.status = 401 -> Err(Unauthorized)
      [] reply.status = 403 -> Err(Forbidden)
      [] reply.status = 429 -> Err(RateLimitExceeded)
      [] OTHER -> Err(ServerError(reply.status, ErrorText(reply)))

\* send().await.map_err(RequestError)?, then process_response
ClientGet(kind, reply) ==
    IF reply.sent THEN ProcessResponse(kind, reply)
    ELSE Err(RequestError(<<"send error">>))

ClientPost(kind, reply) ==
    IF reply.sent THEN ProcessResponse(kind, reply)
    ELSE Err(RequestError(<<"send error">>))

(***************************************************************************)
(* api/request.rs: ApiRequest                                              *)
(***************************************************************************)
ApiRequestNew(method, path) ==
    [method |-> method, path |-> path, headers |-> <<>>, query_params |-> <<>>,
     body |-> None]

\* HashMap::insert
MapInsert(m, key, value) ==
    [k \in DOMAIN m \cup {key} |-> IF k = key THEN value ELSE m[k]]

WithHeader(req, key, value) ==
    [req EXCEPT !.headers = MapInsert(req.headers, key, value)]

\* Mutant of WithQueryParam: the parameter is inserted into the headers
WithQueryParamAsHeader(req, key, value) ==
    [req EXCEPT !.headers = MapInsert(req.headers, key, value)]

WithQueryParam(req, key, value) ==
    [req EXCEPT !.query_params = MapInsert(req.query_params, key, value)]

WithBody(req, body) == [req EXCEPT !.body = Some(body)]

MapPairs(m) == {<<k, m[k]>> : k \in DOMAIN m}

(***************************************************************************)
(* api/client.rs: ApiClient::execute                                       *)
(***************************************************************************)
SupportedMethods == {"GET", "POST", "PUT", "DELETE", "PATCH"}

\* request.path().starts_with("http")
StartsWithHttp(path) == path # <<>> /\ path[1] \in {"http://", "https://"}

ExecuteUrl(cfg, req) ==
    IF StartsWithHttp(req.path) THEN req.path ELSE UrlOf(cfg, req.path)

\* The request execute() sends, for a supported method
BuildExecute(cfg, req) ==
    LET headers == AuthHeaders(cfg) \cup MapPairs(req.headers)
    IN  Request(req.method, ExecuteUrl(cfg, req),
                IF IsSome(req.body) THEN JsonHeaders(headers) ELSE headers,
                MapPairs(req.query_params),
                IF IsSome(req.body) THEN Some(ToJson(Unwrap(req.body))) ELSE None)

\* ApiResponse::new(status, headers, body)
ApiResponse(status, headers) == [status |-> status, headers |-> headers]

\* The match on the status at the end of execute(): the result, and the
\* status and headers of the ApiResponse wrapped around an Ok body.
ExecuteResponse(kind, reply) ==
    CASE SuccessStatus(reply.status) ->
            LET parsed == ParseBody(kind, reply)
            IN  [res |-> parsed,
                 meta |-> IF parsed.ok THEN Some(ApiResponse(reply.status, reply.headers))
                          ELSE None]
      [] reply.status = 404 -> [res |-> Err(ResourceNotFound), meta |-> None]
      [] reply.status = 401 -> [res |-> Err(Unauthorized), meta |-> None]
      [] reply.status = 403 -> [res |-> Err(Forbidden), meta |-> None]
      [] reply.status = 429 -> [res |-> Err(RateLimitExceeded), meta |-> None]
      [] OTHER -> [res |-> Err(ServerError(reply.status, ErrorText(reply))),
                   meta |-> None]

ClientExecute(kind, reply) ==
    IF reply.sent THEN ExecuteResponse(kind, reply)
    ELSE [res |-> Err(RequestError(<<"send error">>)), meta |-> None]

(***************************************************************************)
(* The client on its own: calls of get, post, execute and the setters.     *)
(***************************************************************************)
ApiUrls == {<<"https://api.example.com">>, <<"http://", "localhost">>}
ApiKeys == {"k1", "k2"}
Endpoints == {<<"test">>, <<"resources">>}
ClientStatuses == {200, 201, 202, 204, 400, 401, 403, 404, 429, 500}

ClientReplies ==
    {SendFailure}
        \cup {Reply(TRUE, st, ReplyHeaders, b, TRUE) :
                st \in {x \in ClientStatuses : SuccessStatus(x)},
                b \in {ToJson(OneResource(ResA)), ErrorBody}}
        \cup {Reply(TRUE, st, ReplyHeaders, ErrorBody, TRUE) :
                st \in {x \in ClientStatuses : ~SuccessStatus(x)}}
        \cup {Reply(TRUE, st, ReplyHeaders, <<>>, FALSE) : st \in {200, 500}}

ApiRequests ==
    {ApiRequestNew(m, <<"resources">>) : m \in SupportedMethods \cup {"HEAD"}}
        \cup {WithHeader(ApiRequestNew(m, <<"resources">>), "Authorization", <<"Basic z">>)
                : m \in {"GET"}}
        \cup {WithBody(WithQueryParam(WithHeader(ApiRequestNew(m, <<"http://", "other">>),
                                                 "X-Custom-Header", <<"value">>),
                                      "filter", <<"active">>),
                       OneResource(ResB))
                : m \in {"POST", "PUT"}}

\* `wire` and `outcome` describe the last call made on the client: the
\* ApiRequest it was given (execute), the requests it sent, the reply and
\* the result.  A setter sends nothing and returns nothing.
NoOutcome ==
    [op |-> "none", req |-> None, reply |-> SendFailure, res |-> Err(NoError),
     meta |-> None]

\* ApiClient::new(config), on a configuration without a key or with "k1"
ClientInit ==
    /\ config \in [api_url : ApiUrls, api_key : {None, Some("k1")}]
    /\ wire = <<>>
    /\ outcome = NoOutcome

SetApiUrl(api_url) ==
    /\ config' = [config EXCEPT !.api_url = api_url]
    /\ wire' = <<>>
    /\ outcome' = NoOutcome
    /\ UNCHANGED <<serviceVars, taskVars, libVars, behind>>

SetApiKey(api_key) ==
    /\ config' = [config EXCEPT !.api_key = api_key]
    /\ wire' = <<>>
    /\ outcome' = NoOutcome
    /\ UNCHANGED <<serviceVars, taskVars, libVars, behind>>

Get(endpoint, reply) ==
    /\ wire' = <<BuildGet(config, endpoint)>>
    /\ outcome' = [op |-> "get", req |-> None, reply |-> reply,
                   res |-> ClientGet("resource", reply), meta |-> None]
    /\ UNCHANGED <<config, serviceVars, taskVars, libVars, behind>>

Post(endpoint, body, reply) ==
    /\ wire' = <<BuildPost(config, endpoint, body)>>
    /\ outcome' = [op |-> "post", req |-> None, reply |-> reply,
                   res |-> ClientPost("resource", reply), meta |-> None]
    /\ UNCHANGED <<config, serviceVars, taskVars, libVars, behind>>

Execute(req, reply) ==
    /\ IF req.method \in SupportedMethods
       THEN /\ wire' = <<BuildExecute(config, req)>>
            /\ outcome' = [op |-> "execute", req |-> Some(req), reply |-> reply]
                                @@ ClientExecute("resource", reply)
       ELSE \* _ => return Err(ApiError::UnsupportedMethod): nothing is sent
            /\ wire' = <<>>
            /\ outcome' = [op |-> "execute", req |-> Some(req), reply |-> SendFailure,
                           res |-> Err(UnsupportedMethod), meta |-> None]
    /\ UNCHANGED <<config, serviceVars, taskVars, libVars, behind>>

ClientNext ==
    \/ \E api_url \in ApiUrls : SetApiUrl(api_url)
    \/ \E api_key \in {None} \cup {Some(k) : k \in ApiKeys} : SetApiKey(api_key)
    \/ \E endpoint \in Endpoints, reply \in ClientReplies : Get(endpoint, reply)
    \/ \E endpoint \in Endpoints, reply \in ClientReplies :
            Post(endpoint, OneResource(ResA), reply)
    \/ \E req \in ApiRequests, reply \in ClientReplies : Execute(req, reply)

(***************************************************************************)
(* core/error.rs: CoreError, [tag, msg]                                    *)
(***************************************************************************)
NoCoreError == [tag |-> "none", msg |-> <<>>]
Validation(msg) == [tag |-> "Validation", msg |-> msg]
NotFound(msg) == [tag |-> "NotFound", msg |-> msg]
PermissionDenied(msg) == [tag |-> "PermissionDenied", msg |-> msg]
Processing(msg) == [tag |-> "Processing", msg |-> msg]
ExternalService(msg) == [tag |-> "ExternalService", msg |-> msg]

\* Result<T, CoreError>
CoreOk(v) == [ok |-> TRUE, val |-> v, err |-> NoCoreError]
CoreErr(e) == [ok |-> FALSE, val |-> Unit, err |-> e]

(***************************************************************************)
(* core/service.rs: ResourceCache                                          *)
(***************************************************************************)
StaleMinutes == 5
SecondsPerMinute == 60
Epoch == 0

CacheNew(t) == [resources |-> <<>>, last_updated |-> t]

\* chrono::Duration::num_minutes: whole minutes, truncated toward zero
NumMinutes(secs) ==
    IF secs >= 0 THEN secs \div SecondsPerMinute ELSE -((-secs) \div SecondsPerMinute)

IsStale(c, t) == NumMinutes(t - c.last_updated) > StaleMinutes

\* Mutant of CacheUpdate: the resources are stored, the timestamp is not
CacheUpdateKeepingTime(c, resources, t) ==
    [resources |-> resources, last_updated |-> c.last_updated]

CacheUpdate(c, resources, t) == [resources |-> resources, last_updated |-> t]

\* self.resources.iter().find(|r| r.id == id).cloned()
CacheGet(c, id) ==
    LET hits == {i \in 1..Len(c.resources) : c.resources[i].id = id}
    IN  IF hits = {} THEN None
        ELSE Some(c.resources[CHOOSE i \in hits : \A j \in hits : i <= j])

\* Mutant of GetCached: a stale cache still answers
GetCachedThoughStale(c, t, id) == CacheGet(c, id)

\* get: if !cache.is_stale() { if let Some(resource) = cache.get(id) { ... } }
GetCached(c, t, id) == IF ~IsStale(c, t) THEN CacheGet(c, id) ELSE None

\* Mutant of Invalidated: the resources are dropped, the timestamp is kept
InvalidatedResources(c) == [c EXCEPT !.resources = <<>>]

\* invalidate_cache: last_updated = from_timestamp(0, 0)
Invalidated(c) == [c EXCEPT !.last_updated = Epoch]

(***************************************************************************)
(* core/service.rs: ResourceService                                        *)
(***************************************************************************)
MaxNameLen == 100

\* Mutant of Validate: the check of the type comes before those of the name
ValidateTypeFirst(data) ==
    CASE data.resource_type = "document" /\ "content" \notin data.data ->
            CoreErr(Validation(<<"Document must have content">>))
      [] data.resource_type = "user" /\ "email" \notin data.data ->
            CoreErr(Validation(<<"User must have an email">>))
      [] data.name = <<>> ->
            CoreErr(Validation(<<"Resource name cannot be empty">>))
      [] Len(data.name) > MaxNameLen ->
            CoreErr(Validation(<<"Resource name too long (max 100 characters)">>))
      [] OTHER -> CoreOk(Unit)

Validate(data) ==
    CASE data.name = <<>> ->
            CoreErr(Validation(<<"Resource name cannot be empty">>))
      [] Len(data.name) > MaxNameLen ->
            CoreErr(Validation(<<"Resource name too long (max 100 characters)">>))
      [] data.resource_type = "document" /\ "content" \notin data.data ->
            CoreErr(Validation(<<"Document must have content">>))
      [] data.resource_type = "user" /\ "email" \notin data.data ->
            CoreErr(Validation(<<"User must have an email">>))
      [] OTHER -> CoreOk(Unit)

ApiErrorText(e) == <<"API error: ">> \o ApiErrorDisplay(e)

MapCreateError(e) ==
    CASE e.tag = "ResponseParseError" -> Processing(e.msg)
      [] e.tag = "Unauthorized" ->
            PermissionDenied(<<"Not authorized to create resources">>)
      [] OTHER -> ExternalService(ApiErrorText(e))

\* Mutant of MapGetError: the arm for ResourceNotFound is missing
MapGetErrorNoNotFound(e, id) ==
    CASE e.tag = "Unauthorized" ->
            PermissionDenied(<<"Not authorized to access this resource">>)
      [] OTHER -> ExternalService(ApiErrorText(e))

MapGetError(e, id) ==
    CASE e.tag = "ResourceNotFound" -> NotFound(<<"Resource not found: ", id>>)
      [] e.tag = "Unauthorized" ->
            PermissionDenied(<<"Not authorized to access this resource">>)
      [] OTHER -> ExternalService(ApiErrorText(e))

MapUpdateError(e, id) ==
    CASE e.tag = "ResourceNotFound" -> NotFound(<<"Resource not found: ", id>>)
      [] e.tag = "Unauthorized" ->
            PermissionDenied(<<"Not authorized to update this resource">>)
      [] OTHER -> ExternalService(ApiErrorText(e))

MapDeleteError(e, id) ==
    CASE e.tag = "ResourceNotFound" -> NotFound(<<"Resource not found: ", id>>)
      [] e.tag = "Unauthorized" ->
            PermissionDenied(<<"Not authorized to delete this resource">>)
      [] OTHER -> ExternalService(ApiErrorText(e))

MapListError(e) ==
    CASE e.tag = "Unauthorized" ->
            PermissionDenied(<<"Not authorized to list resources">>)
      [] OTHER -> ExternalService(ApiErrorText(e))

\* The endpoints the handlers format
CreateEndpoint == <<"resources">>
GetEndpoint(id) == <<"resources/", id>>
UpdateEndpoint(id) == <<"resources/", id>>
DeleteEndpoint(id) == <<"resources/", id, "/delete">>

RECURSIVE Join(_, _)
Join(strs, sep) ==
    IF strs = <<>> THEN <<>>
    ELSE IF Len(strs) = 1 THEN strs[1]
    ELSE strs[1] \o <<sep>> \o Join(Tail(strs), sep)

ListEndpoint(limit, filter) ==
    LET query_params ==
            (IF IsSome(limit) THEN <<<<"limit=">> \o FmtNum(Unwrap(limit))>> ELSE <<>>)
                \o (IF IsSome(filter) THEN <<<<"filter=">> \o Unwrap(filter)>> ELSE <<>>)
    IN  IF query_params # <<>> THEN <<"resources", "?">> \o Join(query_params, "&")
        ELSE <<"resources">>

\* str::contains
Contains(str, pat) ==
    \E i \in 0..(Len(str) - Len(pat)) : SubSeq(str, i + 1, i + Len(pat)) = pat

\* The cache path of list: filter by name, then take(limit)
FilterByName(resources, filter) ==
    IF IsSome(filter)
    THEN SelectSeq(resources, LAMBDA r : Contains(r.name, Unwrap(filter)))
    ELSE resources

Take(resources, limit) ==
    IF IsSome(limit) /\ Unwrap(limit) < Len(resources)
    THEN SubSeq(resources, 1, Unwrap(limit))
    ELSE resources

(***************************************************************************)
(* The service called by one caller at a time.  A handler is one action;   *)
(* `call` keeps what the caller can observe of it until Return: the cache   *)
(* before the call, the clock read by its cache check, the requests that   *)
(* went upstream, the reply and the result.                                *)
(***************************************************************************)
StartTime == 1000
MaxElapsed == 362
Advances == {121, 180}
MaxLimit == 1

LongName == [i \in 1..(MaxNameLen + 1) |-> "x"]
InputResources ==
    KnownResources
        \cup {Resource("a", <<>>, "project", {}),
              Resource("a", LongName, "project", {}),
              Resource("a", SubSeq(LongName, 1, MaxNameLen), "project", {}),
              Resource("b", <<>>, "document", {}),
              Resource("a", LongName, "user", {}),
              Resource("b", <<"y">>, "document", {}),
              Resource("b", <<"y">>, "user", {"email"}),
              Resource("a", <<"y">>, "user", {"content"})}
Limits == {None} \cup {Some(l) : l \in 0..MaxLimit}
Filters == {None, Some(<<"y">>)}
ServiceStatuses == {204, 401, 403, 404, 429, 500}

ServiceReplies(kind) ==
    {SendFailure}
        \cup {Reply(TRUE, 200, ReplyHeaders, ToJson(v), TRUE) : v \in ValuesOf(kind)}
        \cup {Reply(TRUE, 200, ReplyHeaders, ErrorBody, TRUE)}
        \cup {Reply(TRUE, st, ReplyHeaders, ErrorBody, TRUE) : st \in ServiceStatuses}

NoCall ==
    [op |-> "none", id |-> "", arg |-> None, limit |-> None, filter |-> None,
     at |-> 0, before |-> CacheNew(0), sent |-> <<>>, reply |-> SendFailure,
     result |-> CoreErr(NoCoreError)]

\* A call that sent nothing upstream
Local(op, id, result) ==
    [NoCall EXCEPT !.op = op, !.id = id, !.at = now, !.before = cache,
                   !.result = result]

\* A call that sent one request and got `reply`
Remote(op, id, request, reply, result) ==
    [NoCall EXCEPT !.op = op, !.id = id, !.at = now, !.before = cache,
                   !.sent = <<request>>, !.reply = reply, !.result = result]

ServiceInit ==
    /\ now = StartTime
    /\ cache = CacheNew(StartTime)
    /\ call = NoCall

Tick(d) ==
    /\ call.op = "none"
    /\ now + d <= StartTime + MaxElapsed
    /\ now' = now + d
    /\ UNCHANGED <<cache, call, clientVars, taskVars, libVars, behind>>

Return ==
    /\ call.op # "none"
    /\ call' = NoCall
    /\ UNCHANGED <<now, cache, clientVars, taskVars, libVars, behind>>

Create(resource, reply) ==
    /\ call.op = "none"
    /\ LET valid == Validate(resource)
           request == BuildPost(config, CreateEndpoint, OneResource(resource))
           result == ClientPost("resource", reply)
           args(c) == [c EXCEPT !.arg = Some(resource)]
       IN  IF ~valid.ok
           THEN /\ call' = args(Local("create", resource.id, valid))
                /\ UNCHANGED cache
           ELSE IF ~result.ok
           THEN /\ call' = args(Remote("create", resource.id, request, reply,
                                       CoreErr(MapCreateError(result.err))))
                /\ UNCHANGED cache
           ELSE /\ call' = args(Remote("create", resource.id, request, reply,
                                       CoreOk(result.val)))
                /\ cache' = Invalidated(cache)
    /\ UNCHANGED <<now, clientVars, taskVars, libVars, behind>>

\* Mutant of ServiceGet: a resource fetched from upstream is put in the cache
ServiceGetCaching(id, reply) ==
    /\ call.op = "none"
    /\ LET cached == GetCached(cache, now, id)
           request == BuildGet(config, GetEndpoint(id))
           result == ClientGet("resource", reply)
       IN  IF IsSome(cached)
           THEN /\ call' = Local("get", id, CoreOk(OneResource(Unwrap(cached))))
                /\ UNCHANGED cache
           ELSE IF ~result.ok
           THEN /\ call' = Remote("get", id, request, reply,
                                  CoreErr(MapGetError(result.err, id)))
                /\ UNCHANGED cache
           ELSE /\ call' = Remote("get", id, request, reply, CoreOk(result.val))
                /\ cache' = [cache EXCEPT !.resources = result.val.items]
    /\ UNCHANGED <<now, clientVars, taskVars, libVars, behind>>

\* Mutant of ServiceGet: when upstream fails, a resource still in the cache
\* is returned instead of the error
ServiceGetFallback(id, reply) ==
    /\ call.op = "none"
    /\ LET cached == GetCached(cache, now, id)
           old == CacheGet(cache, id)
           request == BuildGet(config, GetEndpoint(id))
           result == ClientGet("resource", reply)
       IN  IF IsSome(cached)
           THEN call' = Local("get", id, CoreOk(OneResource(Unwrap(cached))))
           ELSE IF ~result.ok /\ IsSome(old)
           THEN call' = Remote("get", id, request, reply,
                               CoreOk(OneResource(Unwrap(old))))
           ELSE IF ~result.ok
           THEN call' = Remote("get", id, request, reply,
                               CoreErr(MapGetError(result.err, id)))
           ELSE call' = Remote("get", id, request, reply, CoreOk(result.val))
    /\ UNCHANGED <<now, cache, clientVars, taskVars, libVars, behind>>

ServiceGet(id, reply) ==
    /\ call.op = "none"
    /\ LET cached == GetCached(cache, now, id)
           request == BuildGet(config, GetEndpoint(id))
           result == ClientGet("resource", reply)
       IN  IF IsSome(cached)
           THEN call' = Local("get", id, CoreOk(OneResource(Unwrap(cached))))
           ELSE IF ~result.ok
           THEN call' = Remote("get", id, request, reply,
                               CoreErr(MapGetError(result.err, id)))
           ELSE call' = Remote("get", id, request, reply, CoreOk(result.val))
    /\ UNCHANGED <<now, cache, clientVars, taskVars, libVars, behind>>

\* Mutant of Update: the ids are compared before the data is validated
UpdateIdFirst(id, resource, reply) ==
    /\ call.op = "none"
    /\ LET valid == Validate(resource)
           request == BuildPost(config, UpdateEndpoint(id), OneResource(resource))
           result == ClientPost("resource", reply)
           args(c) == [c EXCEPT !.arg = Some(resource)]
       IN  IF resource.id # id
           THEN /\ call' = args(Local("update", id,
                                      CoreErr(Validation(<<"Resource ID mismatch">>))))
                /\ UNCHANGED cache
           ELSE IF ~valid.ok
           THEN /\ call' = args(Local("update", id, valid))
                /\ UNCHANGED cache
           ELSE IF ~result.ok
           THEN /\ call' = args(Remote("update", id, request, reply,
                                       CoreErr(MapUpdateError(result.err, id))))
                /\ UNCHANGED cache
           ELSE /\ call' = args(Remote("update", id, request, reply,
                                       CoreOk(result.val)))
                /\ cache' = Invalidated(cache)
    /\ UNCHANGED <<now, clientVars, taskVars, libVars, behind>>

Update(id, resource, reply) ==
    /\ call.op = "none"
    /\ LET valid == Validate(resource)
           request == BuildPost(config, UpdateEndpoint(id), OneResource(resource))
           result == ClientPost("resource", reply)
           args(c) == [c EXCEPT !.arg = Some(resource)]
       IN  IF ~valid.ok
           THEN /\ call' = args(Local("update", id, valid))
                /\ UNCHANGED cache
           ELSE IF resource.id # id
           THEN /\ call' = args(Local("update", id,
                                      CoreErr(Validation(<<"Resource ID mismatch">>))))
                /\ UNCHANGED cache
           ELSE IF ~result.ok
           THEN /\ call' = args(Remote("update", id, request, reply,
                                       CoreErr(MapUpdateError(result.err, id))))
                /\ UNCHANGED cache
           ELSE /\ call' = args(Remote("update", id, request, reply,
                                       CoreOk(result.val)))
                /\ cache' = Invalidated(cache)
    /\ UNCHANGED <<now, clientVars, taskVars, libVars, behind>>

Delete(id, reply) ==
    /\ call.op = "none"
    /\ LET request == BuildGet(config, DeleteEndpoint(id))
           result == ClientGet("bool", reply)
       IN  IF ~result.ok
           THEN /\ call' = Remote("delete", id, request, reply,
                                  CoreErr(MapDeleteError(result.err, id)))
                /\ UNCHANGED cache
           ELSE /\ call' = Remote("delete", id, request, reply, CoreOk(result.val))
                /\ cache' = Invalidated(cache)
    /\ UNCHANGED <<now, clientVars, taskVars, libVars, behind>>

\* `elapsed` is the time the upstream request takes: cache.update reads the
\* clock again after it.
List(limit, filter, reply, elapsed) ==
    /\ call.op = "none"
    /\ LET request == BuildGet(config, ListEndpoint(limit, filter))
           result == ClientGet("list", reply)
           args(c) == [c EXCEPT !.limit = limit, !.filter = filter]
       IN  IF ~IsStale(cache, now)
           THEN /\ elapsed = 0
                /\ call' = args(Local("list", "", CoreOk(ResourceList(
                                Take(FilterByName(cache.resources, filter), limit)))))
                /\ UNCHANGED <<now, cache>>
           ELSE /\ now + elapsed <= StartTime + MaxElapsed
                /\ now' = now + elapsed
                /\ IF ~result.ok
                   THEN /\ call' = args(Remote("list", "", request, reply,
                                               CoreErr(MapListError(result.err))))
                        /\ UNCHANGED cache
                   ELSE /\ call' = args(Remote("list", "", request, reply,
                                               CoreOk(result.val)))
                        /\ cache' = CacheUpdate(cache, result.val.items, now')
    /\ UNCHANGED <<clientVars, taskVars, libVars, behind>>

ServiceNext ==
    \/ \E d \in Advances : Tick(d)
    \/ Return
    \/ \E resource \in InputResources, reply \in ServiceReplies("resource") :
            Create(resource, reply)
    \/ \E id \in Ids, reply \in ServiceReplies("resource") : ServiceGet(id, reply)
    \/ \E id \in Ids, resource \in InputResources, reply \in ServiceReplies("resource") :
            Update(id, resource, reply)
    \/ \E id \in Ids, reply \in ServiceReplies("bool") : Delete(id, reply)
    \/ \E limit \in Limits, filter \in Filters, reply \in ServiceReplies("list"),
          elapsed \in {0} \cup Advances :
            List(limit, filter, reply, elapsed)

(***************************************************************************)
(* The service called by concurrent tasks.  A task stops at every .await:  *)
(* waiting for the cache lock, or for the reply of upstream.  The lock is  *)
(* tokio::sync::RwLock, by its guarantee: read() returns while no writer   *)
(* holds it, write() while nobody holds it; the guard is released by drop  *)
(* or at the end of its scope.                                             *)
(*                                                                         *)
(* Upstream applies a write when it answers it with success, and answers a *)
(* list with the resources it has then.  A task that holds the answer to   *)
(* its list keeps the tasks whose write upstream has applied since and     *)
(* which have not returned yet (missed), and whether one of them has       *)
(* returned (late).  `behind` says that the list in the cache was late     *)
(* when it was stored.  A task in get or list keeps whether the cache was  *)
(* fresh and behind when it started and has not changed since (start).     *)
(* This history is kept by the specification that starts with `behind` at  *)
(* Some(FALSE), and not by those that start with it at None.               *)
(***************************************************************************)
NumTasks == 2
Recorded == behind # None
Record(flag) == IF Recorded THEN Some(flag) ELSE None
Tasks == 1..NumTasks

IdleTask ==
    [id |-> "", limit |-> None, filter |-> None, fetched |-> <<>>,
     missed |-> {}, late |-> FALSE, start |-> FALSE]

\* What the tasks are called with, what upstream answers them, and the
\* clock: one advance that outlives the staleness window
TaskLists == {<<>>, <<ResA>>, <<ResB, ResA>>}
TaskListArgs == {<<None, None>>, <<Some(MaxLimit), Some(<<"y">>)>>}
TaskResources == {ResA, Resource("a", <<>>, "project", {})}
TaskAdvances == {(StaleMinutes + 1) * SecondsPerMinute}

TaskReplies(kind) ==
    {SendFailure, Reply(TRUE, 404, ReplyHeaders, ErrorBody, TRUE)}
        \cup {Reply(TRUE, 200, ReplyHeaders, ToJson(v), TRUE) :
                v \in IF kind = "list" THEN {ResourceList(rs) : rs \in TaskLists}
                      ELSE ValuesOf(kind)}

CanRead(l) == l.writer = {}
\* Mutant of CanWrite: write() returns although readers hold the lock
CanWriteAmongReaders(l) == l.writer = {}

CanWrite(l) == l.writer = {} /\ l.readers = {}
ReadLocked(l, p) == [l EXCEPT !.readers = @ \cup {p}]
WriteLocked(l, p) == [l EXCEPT !.writer = @ \cup {p}]
Released(l, p) == [readers |-> l.readers \ {p}, writer |-> l.writer \ {p}]

TasksInit ==
    /\ lock = [readers |-> {}, writer |-> {}]
    /\ pc = [p \in Tasks |-> "idle"]
    /\ task = [p \in Tasks |-> IdleTask]
    /\ behind = None

Goto(p, label) == pc' = [pc EXCEPT ![p] = label]

\* create / update: validate, then post and await the reply
StartCreate(p, resource) ==
    /\ pc[p] = "idle"
    /\ Validate(resource).ok
    /\ Goto(p, "create_fetch")
    /\ UNCHANGED task
    /\ UNCHANGED <<lock, serviceVars, clientVars, libVars, behind>>

StartUpdate(p, id, resource) ==
    /\ pc[p] = "idle"
    /\ Validate(resource).ok
    /\ resource.id = id
    /\ Goto(p, "update_fetch")
    /\ task' = [task EXCEPT ![p] = [IdleTask EXCEPT !.id = id]]
    /\ UNCHANGED <<lock, serviceVars, clientVars, libVars, behind>>

StartDelete(p, id) ==
    /\ pc[p] = "idle"
    /\ Goto(p, "delete_fetch")
    /\ task' = [task EXCEPT ![p] = [IdleTask EXCEPT !.id = id]]
    /\ UNCHANGED <<lock, serviceVars, clientVars, libVars, behind>>

\* The reply to create, update or delete: an error returns, a success goes
\* on to invalidate_cache and waits for the write lock
WriteReply(p, reply) ==
    /\ pc[p] \in {"create_fetch", "update_fetch", "delete_fetch"}
    /\ LET result == IF pc[p] = "delete_fetch" THEN ClientGet("bool", reply)
                     ELSE ClientPost("resource", reply)
       IN  IF result.ok
           THEN /\ Goto(p, "invalidate_write")
                /\ task' = [q \in Tasks |->
                                IF q = p THEN IdleTask
                                ELSE IF Recorded /\ pc[q] \in {"list_write", "list_update"}
                                THEN [task[q] EXCEPT !.missed = @ \cup {p}]
                                ELSE task[q]]
           ELSE /\ Goto(p, "idle")
                /\ task' = [task EXCEPT ![p] = IdleTask]
    /\ UNCHANGED <<lock, serviceVars, clientVars, libVars, behind>>

\* self.cache.write().await, in invalidate_cache and in list
AcquireWrite(p) ==
    /\ pc[p] \in {"invalidate_write", "list_write"}
    /\ CanWrite(lock)
    /\ lock' = WriteLocked(lock, p)
    /\ Goto(p, IF pc[p] = "list_write" THEN "list_update" ELSE "invalidate_set")
    /\ UNCHANGED <<task, serviceVars, clientVars, libVars, behind>>

\* invalidate_cache: set the timestamp; the guard drops at the end
InvalidateSet(p) ==
    /\ pc[p] = "invalidate_set"
    /\ cache' = Invalidated(cache)
    /\ lock' = Released(lock, p)
    /\ Goto(p, "idle")
    /\ behind' = Record(FALSE)
    /\ task' = [q \in Tasks |->
                    [task[q] EXCEPT !.late = @ \/ p \in task[q].missed,
                                    !.missed = @ \ {p},
                                    !.start = FALSE]]
    /\ UNCHANGED <<now, call, clientVars, libVars>>

StartGet(p, id) ==
    /\ pc[p] = "idle"
    /\ Goto(p, "get_read")
    /\ task' = [task EXCEPT ![p] =
                    [IdleTask EXCEPT !.id = id,
                                     !.start = behind = Some(TRUE) /\ ~IsStale(cache, now)]]
    /\ UNCHANGED <<lock, serviceVars, clientVars, libVars, behind>>

StartList(p, limit, filter) ==
    /\ pc[p] = "idle"
    /\ Goto(p, "list_read")
    /\ task' = [task EXCEPT ![p] =
                    [IdleTask EXCEPT !.limit = limit, !.filter = filter,
                                     !.start = behind = Some(TRUE) /\ ~IsStale(cache, now)]]
    /\ UNCHANGED <<lock, serviceVars, clientVars, libVars, behind>>

\* self.cache.read().await, in get and in list
AcquireRead(p) ==
    /\ pc[p] \in {"get_read", "list_read"}
    /\ CanRead(lock)
    /\ lock' = ReadLocked(lock, p)
    /\ Goto(p, IF pc[p] = "get_read" THEN "get_check" ELSE "list_check")
    /\ UNCHANGED <<task, serviceVars, clientVars, libVars, behind>>

\* get under the read guard: a hit returns (the guard drops), otherwise
\* drop(cache) and the request goes upstream
GetCheck(p) ==
    /\ pc[p] = "get_check"
    /\ LET cached == GetCached(cache, now, task[p].id)
       IN  IF IsSome(cached)
           THEN Goto(p, "idle") /\ task' = [task EXCEPT ![p] = IdleTask]
           ELSE Goto(p, "get_fetch") /\ UNCHANGED task
    /\ lock' = Released(lock, p)
    /\ UNCHANGED <<serviceVars, clientVars, libVars, behind>>

GetReply(p, reply) ==
    /\ pc[p] = "get_fetch"
    /\ Goto(p, "idle")
    /\ task' = [task EXCEPT ![p] = IdleTask]
    /\ UNCHANGED <<lock, serviceVars, clientVars, libVars, behind>>

\* list under the read guard: fresh clones the resources and returns,
\* stale drops the guard and the request goes upstream
ListCheck(p) ==
    /\ pc[p] = "list_check"
    /\ IF ~IsStale(cache, now)
       THEN Goto(p, "idle") /\ task' = [task EXCEPT ![p] = IdleTask]
       ELSE Goto(p, "list_fetch") /\ UNCHANGED task
    /\ lock' = Released(lock, p)
    /\ UNCHANGED <<serviceVars, clientVars, libVars, behind>>

ListReply(p, reply) ==
    /\ pc[p] = "list_fetch"
    /\ LET result == ClientGet("list", reply)
       IN  IF result.ok
           THEN /\ Goto(p, "list_write")
                /\ task' = [task EXCEPT ![p].fetched = result.val.items]
           ELSE /\ Goto(p, "idle")
                /\ task' = [task EXCEPT ![p] = IdleTask]
    /\ UNCHANGED <<lock, serviceVars, clientVars, libVars, behind>>

\* cache.update(result.clone()); the guard drops when list returns
ListUpdate(p) ==
    /\ pc[p] = "list_update"
    /\ cache' = CacheUpdate(cache, task[p].fetched, now)
    /\ lock' = Released(lock, p)
    /\ Goto(p, "idle")
    /\ behind' = Record(task[p].late)
    /\ task' = [q \in Tasks |->
                    IF q = p THEN IdleTask ELSE [task[q] EXCEPT !.start = FALSE]]
    /\ UNCHANGED <<now, call, clientVars, libVars>>

TaskNext ==
    \/ \E d \in TaskAdvances : Tick(d)
    \/ \E p \in Tasks, resource \in TaskResources : StartCreate(p, resource)
    \/ \E p \in Tasks, id \in Ids, resource \in TaskResources : StartUpdate(p, id, resource)
    \/ \E p \in Tasks, id \in Ids : StartDelete(p, id)
    \/ \E p \in Tasks, reply \in TaskReplies("resource") \cup TaskReplies("bool") :
            WriteReply(p, reply)
    \/ \E p \in Tasks : AcquireWrite(p)
    \/ \E p \in Tasks : InvalidateSet(p)
    \/ \E p \in Tasks, id \in Ids : StartGet(p, id)
    \/ \E p \in Tasks, args \in TaskListArgs : StartList(p, args[1], args[2])
    \/ \E p \in Tasks : AcquireRead(p)
    \/ \E p \in Tasks : GetCheck(p)
    \/ \E p \in Tasks, reply \in TaskReplies("resource") : GetReply(p, reply)
    \/ \E p \in Tasks : ListCheck(p)
    \/ \E p \in Tasks, reply \in TaskReplies("list") : ListReply(p, reply)
    \/ \E p \in Tasks : ListUpdate(p)

(***************************************************************************)
(* models/user.rs: Permission, UserRole, User.  A permission is            *)
(* [tag, name]: name is the String of Custom, "" for the nine others.      *)
(***************************************************************************)
Permission(tag, name) == [tag |-> tag, name |-> name]
Builtin(tag) == Permission(tag, "")
Custom(name) == Permission("Custom", name)

BuiltinPermissions ==
    {Builtin(tag) : tag \in {"CreateResource", "ReadResource", "UpdateResource",
                             "DeleteResource", "ManageUsers", "ManageSettings",
                             "ViewReports", "ExportData", "ImportData"}}

UserRoles == {"Admin", "Manager", "User", "ReadOnly", "Guest"}

\* User::new: role User, no permissions.  `all` is what all_permissions()
\* returned for the user as it stands, None when it was not called.
UserNew == [role |-> "User", permissions |-> {}, all |-> None]

\* The inserts of the arm of `match self.role`
RolePermissions(role) ==
    CASE role = "Admin" ->
            {Builtin("CreateResource"), Builtin("ReadResource"),
             Builtin("UpdateResource"), Builtin("DeleteResource"),
             Builtin("ManageUsers"), Builtin("ManageSettings"),
             Builtin("ViewReports"), Builtin("ExportData"), Builtin("ImportData")}
      [] role = "Manager" ->
            {Builtin("CreateResource"), Builtin("ReadResource"),
             Builtin("UpdateResource"), Builtin("DeleteResource"),
             Builtin("ViewReports"), Builtin("ExportData"), Builtin("ImportData")}
      [] role = "User" ->
            {Builtin("CreateResource"), Builtin("ReadResource"),
             Builtin("UpdateResource"), Builtin("DeleteResource")}
      [] role = "ReadOnly" -> {Builtin("ReadResource")}
      [] role = "Guest" -> {Builtin("ReadResource")}

\* Mutant of AllPermissions: an admin gets the built-in permissions alone,
\* as in has_permission, which does not look at the explicit set of an admin
AllPermissionsAdminBuiltin(u) ==
    IF u.role = "Admin" THEN RolePermissions(u.role)
    ELSE u.permissions \cup RolePermissions(u.role)

\* let mut all_perms = self.permissions.clone(); then the inserts
AllPermissions(u) == u.permissions \cup RolePermissions(u.role)

UserPermissions == BuiltinPermissions \cup {Custom("x")}

WithRole(role) ==
    /\ user' = [user EXCEPT !.role = role, !.all = None]
    /\ UNCHANGED <<appVars, retry, trunc, checks, builder, repo, registry, behind>>

WithPermission(permission) ==
    /\ user' = [user EXCEPT !.permissions = @ \cup {permission}, !.all = None]
    /\ UNCHANGED <<appVars, retry, trunc, checks, builder, repo, registry, behind>>

GetAllPermissions ==
    /\ user' = [user EXCEPT !.all = Some(AllPermissions(user))]
    /\ UNCHANGED <<appVars, retry, trunc, checks, builder, repo, registry, behind>>

UserNext ==
    \/ \E role \in UserRoles : WithRole(role)
    \/ \E permission \in UserPermissions : WithPermission(permission)
    \/ GetAllPermissions

(***************************************************************************)
(* utils/mod.rs: retry_with_backoff.  A u64 is four 16-bit limbs, the      *)
(* least significant first, so that `delay *= 2` has the width it has in   *)
(* the program.  With overflow checks (the debug profile) the              *)
(* multiplication panics when it overflows, without them (the release      *)
(* profile) it wraps.                                                      *)
(***************************************************************************)
\* The limbs of 2 * x + carry, and after them the carry out of the last limb
RECURSIVE DoubleLimbs(_, _)
DoubleLimbs(x, carry) ==
    IF x = <<>> THEN <<carry>>
    ELSE <<(2 * Head(x) + carry) % (2 ^ 16)>>
            \o DoubleLimbs(Tail(x), (2 * Head(x) + carry) \div (2 ^ 16))

MulOverflows(x) == DoubleLimbs(x, 0)[Len(x) + 1] # 0
WrappingMul(x) == SubSeq(DoubleLimbs(x, 0), 1, Len(x))

\* u64 values: a small number, and 2^e
U64(n) == <<n % (2 ^ 16), n \div (2 ^ 16), 0, 0>>
Pow2(e) == [i \in 1..4 |-> IF i = (e \div 16) + 1 THEN 2 ^ (e % 16) ELSE 0]

RetryIdle ==
    [pc |-> "idle", overflow_checks |-> FALSE, max_retries |-> 0,
     initial_delay |-> U64(0), current_retry |-> 0, delay |-> U64(0),
     attempts |-> <<>>, slept |-> <<>>, result |-> [kind |-> "none", attempt |-> 0]]

\* The call: let mut current_retry = 0; let mut delay = initial_delay;
RetryWithBackoff(max_retries, initial_delay, overflow_checks) ==
    /\ retry.pc = "idle"
    /\ retry' = [RetryIdle EXCEPT !.pc = "loop",
                                  !.overflow_checks = overflow_checks,
                                  !.max_retries = max_retries,
                                  !.initial_delay = initial_delay,
                                  !.delay = initial_delay]
    /\ UNCHANGED <<appVars, user, trunc, checks, builder, repo, registry, behind>>

\* One turn of the loop.  operation().await gives `res`; the value or
\* the error of the n-th execution is named by n.
Attempt(res) ==
    /\ retry.pc = "loop"
    /\ LET attempts == Append(retry.attempts, res)
           tried == [retry EXCEPT !.attempts = attempts]
       IN  IF res = "ok"
           THEN retry' = [tried EXCEPT !.pc = "done",
                                      !.result = [kind |-> "ok", attempt |-> Len(attempts)]]
           ELSE IF retry.current_retry >= retry.max_retries
           THEN retry' = [tried EXCEPT !.pc = "done",
                                      !.result = [kind |-> "err", attempt |-> Len(attempts)]]
           ELSE IF MulOverflows(retry.delay) /\ retry.overflow_checks
           THEN \* sleep(delay), then delay *= 2 panics
                retry' = [tried EXCEPT !.pc = "panicked",
                                      !.slept = Append(@, retry.delay),
                                      !.result = [kind |-> "panic", attempt |-> Len(attempts)]]
           ELSE retry' = [tried EXCEPT !.slept = Append(@, retry.delay),
                                      !.delay = WrappingMul(retry.delay),
                                      !.current_retry = @ + 1]
    /\ UNCHANGED <<appVars, user, trunc, checks, builder, repo, registry, behind>>

MaxRetries == 3
InitialDelays == {U64(0), U64(1), U64(1000), Pow2(61), Pow2(62), Pow2(63)}

RetryNext ==
    \/ \E max_retries \in 0..MaxRetries, initial_delay \in InitialDelays,
          overflow_checks \in BOOLEAN :
            RetryWithBackoff(max_retries, initial_delay, overflow_checks)
    \/ \E res \in {"ok", "err"} : Attempt(res)

(***************************************************************************)
(* utils/mod.rs: truncate_string.  A &str is a sequence of characters;     *)
(* len() and the bounds of a slice count the bytes of its UTF-8 encoding,  *)
(* and a slice that ends inside a character panics.                        *)
(***************************************************************************)
\* char::len_utf8, for the characters used here
LenUtf8(c) == IF c = "é" THEN 2 ELSE 1

\* str::len
RECURSIVE StrLen(_)
StrLen(str) == IF str = <<>> THEN 0 ELSE LenUtf8(Head(str)) + StrLen(Tail(str))

\* str::is_char_boundary
IsCharBoundary(str, n) == \E k \in 0..Len(str) : StrLen(SubSeq(str, 1, k)) = n

\* &s[0..n], for n a character boundary
SliceTo(str, n) ==
    SubSeq(str, 1, CHOOSE k \in 0..Len(str) : StrLen(SubSeq(str, 1, k)) = n)

SaturatingSub(a, b) == IF a >= b THEN a - b ELSE 0

\* What a call gives: a String, or a panic
Returned(str) == [panic |-> FALSE, val |-> str]
Panicked == [panic |-> TRUE, val |-> <<>>]

TruncateString(str, max_len) ==
    IF StrLen(str) <= max_len THEN Returned(str)
    ELSE IF IsCharBoundary(str, SaturatingSub(max_len, 3))
    THEN Returned(SliceTo(str, SaturatingSub(max_len, 3)) \o <<".", ".", ".">>)
    ELSE Panicked

MaxStrLen == 4
Strs == SeqsUpTo({"a", "é"}, MaxStrLen)
MaxLens == 0..(MaxStrLen + 3)

\* truncate_string(s, max_len), on the arguments the state holds
Truncate ==
    /\ trunc.out = None
    /\ trunc' = [trunc EXCEPT !.out = Some(TruncateString(trunc.s, trunc.max_len))]
    /\ UNCHANGED <<appVars, user, retry, checks, builder, repo, registry, behind>>

TruncNext == Truncate

(***************************************************************************)
(* utils/validation.rs: ValidationError, ValidationResult, validate_all.   *)
(* Every variant of the error is [tag, field, detail, errors].             *)
(***************************************************************************)
NoValidationError == [tag |-> "none", field |-> "", detail |-> "", errors |-> <<>>]
RequiredFieldMissing(field) ==
    [tag |-> "RequiredFieldMissing", field |-> field, detail |-> "", errors |-> <<>>]
InvalidFieldLength(field, detail) ==
    [tag |-> "InvalidFieldLength", field |-> field, detail |-> detail, errors |-> <<>>]
MultipleErrors(errors) ==
    [tag |-> "MultipleErrors", field |-> "", detail |-> "", errors |-> errors]

\* ValidationResult: Ok(()) and Err(error)
Valid == [ok |-> TRUE, err |-> NoValidationError]
Invalid(error) == [ok |-> FALSE, err |-> error]

\* validations.into_iter().filter_map(..).collect()
CollectErrors(validations) ==
    LET failed == SelectSeq(validations, LAMBDA result : ~result.ok)
    IN  [i \in 1..Len(failed) |-> failed[i].err]

\* Mutant of ValidateAll: the first error is returned, the others are dropped
ValidateAllFirstError(validations) ==
    LET errors == CollectErrors(validations)
    IN  IF errors = <<>> THEN Valid ELSE Invalid(errors[1])

ValidateAll(validations) ==
    LET errors == CollectErrors(validations)
    IN  IF errors = <<>> THEN Valid
        ELSE IF Len(errors) = 1 THEN Invalid(errors[1])
        ELSE Invalid(MultipleErrors(errors))

MaxValidations == 3
ValidationResults ==
    {Valid,
     Invalid(RequiredFieldMissing("field1")),
     Invalid(InvalidFieldLength("field2", "Length must be between 2 and 5")),
     Invalid(MultipleErrors(<<RequiredFieldMissing("a"), RequiredFieldMissing("b")>>))}

\* validate_all(validations), on the argument the state holds
CallValidateAll ==
    /\ checks.out = None
    /\ checks' = [checks EXCEPT !.out = Some(ValidateAll(checks.validations))]
    /\ UNCHANGED <<appVars, user, retry, trunc, builder, repo, registry, behind>>

ChecksNext == CallValidateAll

(***************************************************************************)
(* api/request.rs: building an ApiRequest.  `builder` holds the request,   *)
(* the constructor call that made it, and the last step with the request   *)
(* it was applied to.                                                      *)
(***************************************************************************)
\* ApiRequest::get, post, put, delete, patch: Self::new(Method::.., path)
ConstructorMethod ==
    [get |-> "GET", post |-> "POST", put |-> "PUT", delete |-> "DELETE",
     patch |-> "PATCH"]

BuilderStep(op, key, value, body) ==
    [op |-> op, key |-> key, value |-> value, body |-> body]

Constructed(ctor, path) ==
    [req |-> ApiRequestNew(ConstructorMethod[ctor], path),
     ctor |-> [name |-> ctor, path |-> path],
     prev |-> None,
     step |-> BuilderStep(ctor, "", path, None)]

BuildNew(ctor, path) ==
    /\ builder' = Constructed(ctor, path)
    /\ UNCHANGED <<appVars, user, retry, trunc, checks, repo, registry, behind>>

BuildWithHeader(key, value) ==
    /\ builder' = [builder EXCEPT !.req = WithHeader(builder.req, key, value),
                                  !.prev = Some(builder.req),
                                  !.step = BuilderStep("with_header", key, value, None)]
    /\ UNCHANGED <<appVars, user, retry, trunc, checks, repo, registry, behind>>

\* self.with_header(header::CONTENT_TYPE.as_str(), "application/json")
BuildWithJsonContentType ==
    /\ builder' = [builder EXCEPT
                        !.req = WithHeader(builder.req, "content-type",
                                           <<"application/json">>),
                        !.prev = Some(builder.req),
                        !.step = BuilderStep("with_json_content_type", "content-type",
                                             <<"application/json">>, None)]
    /\ UNCHANGED <<appVars, user, retry, trunc, checks, repo, registry, behind>>

BuildWithQueryParam(key, value) ==
    /\ builder' = [builder EXCEPT !.req = WithQueryParam(builder.req, key, value),
                                  !.prev = Some(builder.req),
                                  !.step = BuilderStep("with_query_param", key, value, None)]
    /\ UNCHANGED <<appVars, user, retry, trunc, checks, repo, registry, behind>>

BuildWithBody(body) ==
    /\ builder' = [builder EXCEPT !.req = WithBody(builder.req, body),
                                  !.prev = Some(builder.req),
                                  !.step = BuilderStep("with_body", "", <<>>, Some(body))]
    /\ UNCHANGED <<appVars, user, retry, trunc, checks, repo, registry, behind>>

BuilderPaths == {<<"resources">>, <<"http://", "other">>}
HeaderKeys == {"X-Custom-Header", "content-type"}
HeaderValues == {<<"value">>, <<"text/plain">>}
QueryKeys == {"filter"}
QueryValues == {<<"active">>, <<"all">>}
Bodies == {OneResource(ResA), OneResource(ResB)}

BuilderNext ==
    \/ \E ctor \in DOMAIN ConstructorMethod, path \in BuilderPaths : BuildNew(ctor, path)
    \/ \E key \in HeaderKeys, value \in HeaderValues : BuildWithHeader(key, value)
    \/ BuildWithJsonContentType
    \/ \E key \in QueryKeys, value \in QueryValues : BuildWithQueryParam(key, value)
    \/ \E body \in Bodies : BuildWithBody(body)

(***************************************************************************)
(* models/persistence.rs: InMemoryResourceRepository and                   *)
(* InMemoryUserRepository, which differ in the type of the entity only.    *)
(* Every method takes the lock of the map first and holds it to its end,   *)
(* so the calls of concurrent callers take effect one at a time, in the    *)
(* order they get the lock: one action each.  `repo` holds the map, the    *)
(* save and delete calls so far (log) and the last call with its result.   *)
(***************************************************************************)
Entity(id, rev) == [id |-> id, rev |-> rev]

\* Mutant of Saved: an id already present keeps its entity
SavedIfAbsent(entities, entity) ==
    IF entity.id \in DOMAIN entities THEN entities
    ELSE MapInsert(entities, entity.id, entity)

\* resources.insert(resource.id.clone(), resource)
Saved(entities, entity) == MapInsert(entities, entity.id, entity)

\* resources.remove(id)
Removed(entities, id) == [k \in DOMAIN entities \ {id} |-> entities[k]]

\* resources.get(id).cloned()
Found(entities, id) == IF id \in DOMAIN entities THEN Some(entities[id]) ELSE None

RepoCall(op, id) ==
    [op |-> op, id |-> id, entity |-> None, flag |-> FALSE, all |-> <<>>, n |-> 0]

\* InMemoryResourceRepository::new
RepoNew == [entities |-> <<>>, log |-> <<>>, last |-> RepoCall("new", "")]

MaxCalls == 4

RepoSave(entity) ==
    /\ Len(repo.log) < MaxCalls
    /\ repo' = [entities |-> Saved(repo.entities, entity),
                log |-> Append(repo.log, [RepoCall("save", entity.id)
                                            EXCEPT !.entity = Some(entity)]),
                last |-> [RepoCall("save", entity.id) EXCEPT !.entity = Some(entity)]]
    /\ UNCHANGED <<appVars, user, retry, trunc, checks, builder, registry, behind>>

RepoDelete(id) ==
    /\ Len(repo.log) < MaxCalls
    /\ repo' = [entities |-> Removed(repo.entities, id),
                log |-> Append(repo.log, RepoCall("delete", id)),
                last |-> [RepoCall("delete", id)
                            EXCEPT !.flag = IsSome(Found(repo.entities, id))]]
    /\ UNCHANGED <<appVars, user, retry, trunc, checks, builder, registry, behind>>

RepoFindById(id) ==
    /\ repo' = [repo EXCEPT !.last = [RepoCall("find_by_id", id)
                                        EXCEPT !.entity = Found(repo.entities, id)]]
    /\ UNCHANGED <<appVars, user, retry, trunc, checks, builder, registry, behind>>

\* resources.values().cloned().collect(): the values, in the order the
\* HashMap iterates, which is any order
RepoFindAll(all) ==
    /\ Len(all) = Cardinality(DOMAIN repo.entities)
    /\ {all[i].id : i \in 1..Len(all)} = DOMAIN repo.entities
    /\ \A i \in 1..Len(all) : all[i] = repo.entities[all[i].id]
    /\ repo' = [repo EXCEPT !.last = [RepoCall("find_all", "") EXCEPT !.all = all]]
    /\ UNCHANGED <<appVars, user, retry, trunc, checks, builder, registry, behind>>

RepoCount ==
    /\ repo' = [repo EXCEPT !.last = [RepoCall("count", "")
                                        EXCEPT !.n = Cardinality(DOMAIN repo.entities)]]
    /\ UNCHANGED <<appVars, user, retry, trunc, checks, builder, registry, behind>>

Entities == {Entity(id, rev) : id \in Ids, rev \in {"v1", "v2"}}

RepoNext ==
    \/ \E entity \in Entities : RepoSave(entity)
    \/ \E id \in Ids : RepoDelete(id)
    \/ \E id \in Ids : RepoFindById(id)
    \/ \E all \in SeqsUpTo(Entities, Cardinality(Ids)) : RepoFindAll(all)
    \/ RepoCount

(***************************************************************************)
(* core/processor.rs: ProcessorRegistry.  A processor is a trait object:   *)
(* what it does to a resource is an input, [name, fails].  It leaves its   *)
(* name on the resource it is given, and returns the error of its name     *)
(* when it fails.  register and process hold the Mutex of the map from     *)
(* their first line to their last and await nothing else: one action each. *)
(* `registry` holds the map, the register calls so far (log) and the last  *)
(* process call: the type of its resource, the register calls before it,   *)
(* the processors that were invoked on the resource, in order, and the     *)
(* result.                                                                 *)
(***************************************************************************)
Processor(name, fails) == [name |-> name, fails |-> fails]

\* ResourceProcessor::process, of the processor p
ProcessorResult(p) ==
    IF p.fails THEN CoreErr(Validation(<<p.name>>)) ELSE CoreOk(Unit)

\* ProcessorRegistry::new
RegistryNew ==
    [processors |-> <<>>, log |-> <<>>,
     last |-> [rtype |-> "", before |-> <<>>, invoked |-> <<>>, result |-> None]]

\* processors.entry(resource_type).or_insert_with(Vec::new).push(processor)
Registered(processors, rtype, p) ==
    MapInsert(processors, rtype,
              Append(IF rtype \in DOMAIN processors THEN processors[rtype] ELSE <<>>, p))

\* for processor in ps { processor.process(resource)?; } after the calls of
\* `invoked`: the calls made, and the error that ended the loop, if any
RECURSIVE ForEachProcess(_, _)
ForEachProcess(ps, invoked) ==
    IF ps = <<>> THEN [invoked |-> invoked, result |-> CoreOk(Unit)]
    ELSE IF Head(ps).fails
         THEN [invoked |-> Append(invoked, Head(ps)),
               result |-> ProcessorResult(Head(ps))]
         ELSE ForEachProcess(Tail(ps), Append(invoked, Head(ps)))

\* Mutant of Process: the wildcard processors come first
ProcessWildcardFirst(processors, rtype) ==
    LET get(k) == IF k \in DOMAIN processors THEN processors[k] ELSE <<>>
        wildcard == ForEachProcess(get("any"), <<>>)
    IN  IF ~wildcard.result.ok THEN wildcard
        ELSE ForEachProcess(get(rtype), wildcard.invoked)

\* ProcessorRegistry::process on a resource of type rtype
Process(processors, rtype) ==
    LET get(k) == IF k \in DOMAIN processors THEN processors[k] ELSE <<>>
        typed == ForEachProcess(get(rtype), <<>>)
    IN  IF ~typed.result.ok THEN typed
        ELSE ForEachProcess(get("any"), typed.invoked)

MaxProcessors == 3

Register(rtype, p) ==
    /\ Len(registry.log) < MaxProcessors
    /\ registry' = [registry EXCEPT
                        !.processors = Registered(registry.processors, rtype, p),
                        !.log = Append(registry.log, <<rtype, p>>)]
    /\ UNCHANGED <<appVars, user, retry, trunc, checks, builder, repo, behind>>

RegistryProcess(rtype) ==
    /\ LET done == Process(registry.processors, rtype)
       IN  registry' = [registry EXCEPT
                            !.last = [rtype |-> rtype, before |-> registry.log,
                                      invoked |-> done.invoked,
                                      result |-> Some(done.result)]]
    /\ UNCHANGED <<appVars, user, retry, trunc, checks, builder, repo, behind>>

RegistryTypes == {"document", "project", "any"}
Processors == {Processor(name, fails) : name \in {"p", "q"}, fails \in BOOLEAN}

RegistryNext ==
    \/ \E rtype \in RegistryTypes, p \in Processors : Register(rtype, p)
    \/ \E rtype \in RegistryTypes : RegistryProcess(rtype)

(***************************************************************************)
(* Specifications                                                          *)
(***************************************************************************)
TasksIdle ==
    /\ lock = [readers |-> {}, writer |-> {}]
    /\ pc = <<>>
    /\ task = <<>>
    /\ behind = None

\* The library, not called
LibIdle ==
    /\ user = UserNew
    /\ retry = RetryIdle
    /\ trunc = [s |-> <<>>, max_len |-> 0, out |-> None]
    /\ checks = [validations |-> <<>>, out |-> None]
    /\ builder = Constructed("get", <<"resources">>)
    /\ repo = RepoNew
    /\ registry = RegistryNew

DefaultConfigs ==
    [api_url : {<<"https://api.example.com">>}, api_key : {None, Some("k1")}]

\* The client alone
ClientSpecInit ==
    /\ ClientInit
    /\ ServiceInit
    /\ TasksIdle
    /\ LibIdle

ClientSpec == ClientSpecInit /\ [][ClientNext]_vars

\* The service with one caller: ResourceService::new(config) on a default or
\* a keyed configuration
Init ==
    /\ config \in DefaultConfigs
    /\ wire = <<>>
    /\ outcome = NoOutcome
    /\ ServiceInit
    /\ TasksIdle
    /\ LibIdle

Next == ServiceNext

Spec == Init /\ [][Next]_vars

\* The service with concurrent callers
TaskSpecInit ==
    /\ config \in DefaultConfigs
    /\ wire = <<>>
    /\ outcome = NoOutcome
    /\ ServiceInit
    /\ TasksInit
    /\ LibIdle

TaskSpec == TaskSpecInit /\ [][TaskNext]_vars

\* The application, not called: the state the library is used in
AppIdle ==
    /\ config = [api_url |-> <<"https://api.example.com">>, api_key |-> None]
    /\ wire = <<>>
    /\ outcome = NoOutcome
    /\ ServiceInit
    /\ TasksIdle

\* A user from User::new, built on with with_role and with_permission
UserSpecInit ==
    /\ AppIdle
    /\ user = UserNew
    /\ retry = RetryIdle
    /\ trunc = [s |-> <<>>, max_len |-> 0, out |-> None]
    /\ checks = [validations |-> <<>>, out |-> None]
    /\ builder = Constructed("get", <<"resources">>)
    /\ repo = RepoNew
    /\ registry = RegistryNew

UserSpec == UserSpecInit /\ [][UserNext]_vars

\* Calls of retry_with_backoff
RetrySpecInit ==
    /\ AppIdle
    /\ user = UserNew
    /\ retry = RetryIdle
    /\ trunc = [s |-> <<>>, max_len |-> 0, out |-> None]
    /\ checks = [validations |-> <<>>, out |-> None]
    /\ builder = Constructed("get", <<"resources">>)
    /\ repo = RepoNew
    /\ registry = RegistryNew

RetrySpec == RetrySpecInit /\ [][RetryNext]_vars

\* truncate_string on every string and every max_len of the bounds
TruncSpecInit ==
    /\ AppIdle
    /\ user = UserNew
    /\ retry = RetryIdle
    /\ trunc \in [s : Strs, max_len : MaxLens, out : {None}]
    /\ checks = [validations |-> <<>>, out |-> None]
    /\ builder = Constructed("get", <<"resources">>)
    /\ repo = RepoNew
    /\ registry = RegistryNew

TruncSpec == TruncSpecInit /\ [][TruncNext]_vars

\* validate_all on every vector of results of the bounds
ChecksSpecInit ==
    /\ AppIdle
    /\ user = UserNew
    /\ retry = RetryIdle
    /\ trunc = [s |-> <<>>, max_len |-> 0, out |-> None]
    /\ checks \in [validations : SeqsUpTo(ValidationResults, MaxValidations),
                    out : {None}]
    /\ builder = Constructed("get", <<"resources">>)
    /\ repo = RepoNew
    /\ registry = RegistryNew

ChecksSpec == ChecksSpecInit /\ [][ChecksNext]_vars

\* An ApiRequest from ApiRequest::get("resources"), built on step by step
BuilderSpecInit ==
    /\ AppIdle
    /\ user = UserNew
    /\ retry = RetryIdle
    /\ trunc = [s |-> <<>>, max_len |-> 0, out |-> None]
    /\ checks = [validations |-> <<>>, out |-> None]
    /\ builder = Constructed("get", <<"resources">>)
    /\ repo = RepoNew
    /\ registry = RegistryNew

BuilderSpec == BuilderSpecInit /\ [][BuilderNext]_vars

\* A new repository and the calls made on it
RepoSpecInit ==
    /\ AppIdle
    /\ user = UserNew
    /\ retry = RetryIdle
    /\ trunc = [s |-> <<>>, max_len |-> 0, out |-> None]
    /\ checks = [validations |-> <<>>, out |-> None]
    /\ builder = Constructed("get", <<"resources">>)
    /\ repo = RepoNew
    /\ registry = RegistryNew

RepoSpec == RepoSpecInit /\ [][RepoNext]_vars

\* A new registry, the processors registered with it and the resources
\* processed by it
RegistrySpecInit ==
    /\ AppIdle
    /\ user = UserNew
    /\ retry = RetryIdle
    /\ trunc = [s |-> <<>>, max_len |-> 0, out |-> None]
    /\ checks = [validations |-> <<>>, out |-> None]
    /\ builder = Constructed("get", <<"resources">>)
    /\ repo = RepoNew
    /\ registry = RegistryNew

RegistrySpec == RegistrySpecInit /\ [][RegistryNext]_vars

\* The service with concurrent callers and the history of upstream's writes
RaceSpecInit ==
    /\ config = [api_url |-> <<"https://api.example.com">>, api_key |-> None]
    /\ wire = <<>>
    /\ outcome = NoOutcome
    /\ ServiceInit
    /\ lock = [readers |-> {}, writer |-> {}]
    /\ pc = [p \in Tasks |-> "idle"]
    /\ task = [p \in Tasks |-> IdleTask]
    /\ LibIdle
    /\ behind = Some(FALSE)

RaceSpec == RaceSpecInit /\ [][TaskNext]_vars

(***************************************************************************)
(* Properties of the client (ClientSpec)                                   *)
(***************************************************************************)
\* C1: for every status upstream returns, get, post and execute produce the
\* parsed body for 200, 201 and 202 (ResponseParseError when the body does
\* not parse), ResourceNotFound for 404, Unauthorized for 401, Forbidden for
\* 403, RateLimitExceeded for 429, and ServerError with the status code and
\* the body text for every other status, 204 included; the three paths agree.
StatusMapping ==
    (outcome.op \in {"get", "post", "execute"} /\ outcome.reply.sent) =>
        LET st == outcome.reply.status
            body == outcome.reply.body
            res == outcome.res
            parses == /\ outcome.reply.readable
                      /\ \E r \in KnownResources : ResourceJson(r) = body
        IN  CASE st \in {200, 201, 202} ->
                    IF parses
                    THEN /\ res.ok
                         /\ res.val.kind = "resource"
                         /\ ResourceJson(res.val.items[1]) = body
                    ELSE ~res.ok /\ res.err.tag = "ResponseParseError"
              [] st = 404 -> res = Err(ResourceNotFound)
              [] st = 401 -> res = Err(Unauthorized)
              [] st = 403 -> res = Err(Forbidden)
              [] st = 429 -> res = Err(RateLimitExceeded)
              [] OTHER -> /\ ~res.ok
                          /\ res.err.tag = "ServerError"
                          /\ res.err.code = st
                          /\ outcome.reply.readable => res.err.msg = body

\* C1 witness: execute got 204 and returned ServerError(204, body)
StatusMappingWitness ==
    /\ outcome.op = "execute"
    /\ outcome.reply.sent
    /\ outcome.reply.status = 204
    /\ outcome.res = Err(ServerError(204, ErrorBody))

AuthorizationOf(headers) == {h \in headers : h[1] = "Authorization"}

\* C10: every request get, post and execute build carries Authorization:
\* Bearer <key> for the client's current key, and with no key the client adds
\* no Authorization header (the request has only the caller's own).
BearerAuthorization ==
    LET own == IF IsSome(outcome.req)
               THEN AuthorizationOf(MapPairs(Unwrap(outcome.req).headers))
               ELSE {}
        bearer == IF IsSome(config.api_key)
                  THEN {<<"Authorization", <<"Bearer ", Unwrap(config.api_key)>>>>}
                  ELSE {}
    IN  \A i \in 1..Len(wire) : AuthorizationOf(wire[i].headers) = own \cup bearer

\* C10 witness: a request of execute carries the key set_api_key installed
BearerAuthorizationWitness ==
    /\ outcome.op = "execute"
    /\ wire # <<>>
    /\ config.api_key = Some("k2")
    /\ <<"Authorization", <<"Bearer ", "k2">>>> \in wire[1].headers

(***************************************************************************)
(* Properties of users (UserSpec)                                          *)
(***************************************************************************)
\* The default set of a role, as the table of roles has it
DefaultPermissions(role) ==
    CASE role = "Admin" -> BuiltinPermissions
      [] role = "Manager" ->
            BuiltinPermissions \ {Builtin("ManageUsers"), Builtin("ManageSettings")}
      [] role = "User" ->
            {p \in BuiltinPermissions :
                p.tag \in {"CreateResource", "ReadResource", "UpdateResource",
                           "DeleteResource"}}
      [] OTHER -> {p \in BuiltinPermissions : p.tag = "ReadResource"}

\* C12: all_permissions() is the explicit permissions of the user together
\* with the default set of its role: every explicit permission is in it, and
\* nothing else than these and the defaults of the role.
PermissionUnion ==
    IsSome(user.all) =>
        /\ Cardinality(BuiltinPermissions) = 9
        /\ user.permissions \subseteq Unwrap(user.all)
        /\ Unwrap(user.all) = user.permissions \cup DefaultPermissions(user.role)

\* C12 witness: an admin with a custom permission, which all_permissions() kept
PermissionUnionWitness ==
    /\ user.role = "Admin"
    /\ user.permissions = {Custom("x")}
    /\ IsSome(user.all)
    /\ Cardinality(Unwrap(user.all)) = 10

(***************************************************************************)
(* Properties of retry_with_backoff (RetrySpec)                            *)
(***************************************************************************)
\* C13, as claimed: an operation that fails on every call is executed at
\* most max_retries times.
AtMostMaxRetriesExecutions ==
    (\A i \in 1..Len(retry.attempts) : retry.attempts[i] = "err")
        => Len(retry.attempts) <= retry.max_retries

\* A number of any size: its limbs without the zero limbs at the top
RECURSIVE Trim(_)
Trim(x) ==
    IF x # <<>> /\ x[Len(x)] = 0 THEN Trim(SubSeq(x, 1, Len(x) - 1)) ELSE x

\* x * 2^n, as a number of any size
RECURSIVE TimesPow2(_, _)
TimesPow2(x, n) == IF n = 0 THEN Trim(x) ELSE Trim(DoubleLimbs(TimesPow2(x, n - 1), 0))

\* C14, as claimed: the call ends by returning, after at most
\* max_retries + 1 executions; it returns the value of the first execution
\* that succeeds, which is the last execution; when every execution failed
\* it returns the error of the last one; and the k-th sleep lasts
\* initial_delay * 2^(k-1) milliseconds.
RetryReturnsAndBacksOff ==
    /\ retry.pc # "panicked"
    /\ retry.pc = "loop" => Len(retry.attempts) <= retry.max_retries
    /\ retry.pc = "done" =>
            /\ retry.result.attempt = Len(retry.attempts)
            /\ \A i \in 1..(Len(retry.attempts) - 1) : retry.attempts[i] = "err"
            /\ retry.result.kind =
                    (IF retry.attempts[Len(retry.attempts)] = "ok" THEN "ok" ELSE "err")
            /\ retry.result.kind = "err" => Len(retry.attempts) = retry.max_retries + 1
    /\ \A k \in 1..Len(retry.slept) :
            Trim(retry.slept[k]) = TimesPow2(retry.initial_delay, k - 1)

(***************************************************************************)
(* Properties of truncate_string (TruncSpec)                               *)
(***************************************************************************)
\* C15, as claimed: truncate_string returns s itself when s is at most
\* max_len long, and otherwise a string that ends in "..." and is at most
\* max_len long, whatever s and max_len are.
TruncateWithinMaxLen ==
    IsSome(trunc.out) =>
        LET out == Unwrap(trunc.out)
        IN  /\ ~out.panic
            /\ IF StrLen(trunc.s) <= trunc.max_len THEN out.val = trunc.s
               ELSE /\ Len(out.val) >= 3
                    /\ SubSeq(out.val, Len(out.val) - 2, Len(out.val)) = <<".", ".", ".">>
                    /\ StrLen(out.val) <= trunc.max_len

(***************************************************************************)
(* Properties of validate_all (ChecksSpec)                                 *)
(***************************************************************************)
\* C16: validate_all returns Ok exactly when every result is Ok; the error
\* itself when one result is an error; and with two or more errors
\* MultipleErrors of all of them and nothing else, in the order of the
\* results.
ValidateAllCollects ==
    IsSome(checks.out) =>
        LET results == checks.validations
            out == Unwrap(checks.out)
            failing == {i \in 1..Len(results) : ~results[i].ok}
            Rank(i) == Cardinality({j \in failing : j <= i})
        IN  /\ out.ok <=> failing = {}
            /\ Cardinality(failing) = 1 =>
                    \A i \in failing : out.err = results[i].err
            /\ Cardinality(failing) >= 2 =>
                    /\ out.err.tag = "MultipleErrors"
                    /\ Len(out.err.errors) = Cardinality(failing)
                    /\ \A i \in failing : out.err.errors[Rank(i)] = results[i].err

\* C16 witness: two different errors around an Ok came back in their order
ValidateAllCollectsWitness ==
    /\ Len(checks.validations) = 3
    /\ checks.validations[2].ok
    /\ IsSome(checks.out)
    /\ Unwrap(checks.out).err =
            MultipleErrors(<<InvalidFieldLength("field2", "Length must be between 2 and 5"),
                             RequiredFieldMissing("field1")>>)

(***************************************************************************)
(* Properties of the request builder (BuilderSpec)                         *)
(***************************************************************************)
\* m2 is m1 with `key` set to `value`, and every other key as in m1
InsertedOne(m1, m2, key, value) ==
    /\ DOMAIN m2 = DOMAIN m1 \cup {key}
    /\ m2[key] = value
    /\ \A k \in DOMAIN m1 \ {key} : m2[k] = m1[k]

\* C17: a constructor gives its method and the path, no headers, no query
\* parameters and no body; with_header and with_query_param set exactly one
\* key of their own map and with_body sets the body, each leaving the other
\* fields as they were; method and path stay those of the constructor.
BuilderFrames ==
    LET req == builder.req
        step == builder.step
        made == step.op \in {"get", "post", "put", "delete", "patch"}
        prev == IF made THEN req ELSE Unwrap(builder.prev)
    IN  /\ req.method = (CASE builder.ctor.name = "get" -> "GET"
                           [] builder.ctor.name = "post" -> "POST"
                           [] builder.ctor.name = "put" -> "PUT"
                           [] builder.ctor.name = "delete" -> "DELETE"
                           [] builder.ctor.name = "patch" -> "PATCH")
        /\ req.path = builder.ctor.path
        /\ made => /\ builder.ctor.name = step.op
                   /\ req.path = step.value
                   /\ DOMAIN req.headers = {}
                   /\ DOMAIN req.query_params = {}
                   /\ req.body = None
        /\ step.op \in {"with_header", "with_json_content_type"} =>
                /\ InsertedOne(prev.headers, req.headers, step.key, step.value)
                /\ req.query_params = prev.query_params
                /\ req.body = prev.body
        /\ step.op = "with_query_param" =>
                /\ InsertedOne(prev.query_params, req.query_params, step.key, step.value)
                /\ req.headers = prev.headers
                /\ req.body = prev.body
        /\ step.op = "with_body" =>
                /\ req.body = step.body
                /\ IsSome(req.body)
                /\ req.headers = prev.headers
                /\ req.query_params = prev.query_params

\* C17 witness: with_header overwrote a header of a PATCH request that has
\* a query parameter and a body
BuilderFramesWitness ==
    /\ builder.step.op = "with_header"
    /\ builder.req.method = "PATCH"
    /\ builder.step.key \in DOMAIN Unwrap(builder.prev).headers
    /\ Unwrap(builder.prev).headers[builder.step.key] # builder.step.value
    /\ DOMAIN builder.req.query_params # {}
    /\ IsSome(builder.req.body)

(***************************************************************************)
(* Properties of the in-memory repositories (RepoSpec)                     *)
(***************************************************************************)
\* What a log of save and delete calls leaves under an id: the entity of
\* the last save of the id when no delete of the id came after it
LeftBy(log, id) ==
    LET calls == {i \in 1..Len(log) : log[i].id = id}
        last == CHOOSE i \in calls : \A j \in calls : j <= i
    IN  IF calls = {} \/ log[last].op = "delete" THEN None ELSE log[last].entity

\* C18: after any sequence of save and delete calls, find_by_id(id) gives
\* the entity last saved under id unless a delete of id came after, and None
\* then; count is the number of ids present; find_all gives the entities
\* present, each once; delete(id) is true exactly when id was present, so a
\* delete right after a delete of the same id is false.
RepositoryFollowsCalls ==
    LET log == repo.log
        last == repo.last
        present == {id \in Ids : IsSome(LeftBy(log, id))}
    IN  /\ last.op = "find_by_id" => last.entity = LeftBy(log, last.id)
        /\ last.op = "count" => last.n = Cardinality(present)
        /\ last.op = "find_all" =>
                /\ Len(last.all) = Cardinality(present)
                /\ {last.all[i] : i \in 1..Len(last.all)}
                        = {Unwrap(LeftBy(log, id)) : id \in present}
        /\ last.op = "save" => last.entity = LeftBy(log, last.id)
        /\ last.op = "delete" =>
                /\ last.flag <=> IsSome(LeftBy(SubSeq(log, 1, Len(log) - 1), last.id))
                /\ LeftBy(log, last.id) = None
                /\ (Len(log) >= 2 /\ log[Len(log) - 1].op = "delete"
                        /\ log[Len(log) - 1].id = last.id) => ~last.flag

\* C18 witness: an id saved twice and deleted twice; the second delete is false
RepositoryFollowsCallsWitness ==
    /\ Len(repo.log) = 4
    /\ \A i \in 1..4 : repo.log[i].id = "a"
    /\ <<repo.log[1].op, repo.log[2].op, repo.log[3].op, repo.log[4].op>>
            = <<"save", "save", "delete", "delete">>
    /\ repo.log[1].entity # repo.log[2].entity
    /\ repo.last.op = "delete"
    /\ ~repo.last.flag

(***************************************************************************)
(* Properties of the processor registry (RegistrySpec)                     *)
(***************************************************************************)
\* The processors of the register calls made with the type rtype before the
\* last process call, in the order of the calls
RegisteredUnder(rtype) ==
    LET calls == SelectSeq(registry.last.before, LAMBDA c : c[1] = rtype)
    IN  [i \in 1..Len(calls) |-> calls[i][2]]

\* C21: process on a resource of type T invokes the processors registered
\* under T, in the order of their registration, then those registered under
\* Any, in theirs, up to the first that fails and none after it; it returns
\* the error of that one, and Ok when none fails or none is registered.
ProcessInRegistrationOrder ==
    registry.last.result # None =>
        LET chain == RegisteredUnder(registry.last.rtype) \o RegisteredUnder("any")
            failing == {i \in 1..Len(chain) : chain[i].fails}
            invoked == registry.last.invoked
            result == Unwrap(registry.last.result)
        IN  IF failing = {}
            THEN invoked = chain /\ result = CoreOk(Unit)
            ELSE LET first == CHOOSE i \in failing : \A j \in failing : i <= j
                 IN  /\ invoked = SubSeq(chain, 1, first)
                     /\ result = CoreErr(Validation(<<chain[first].name>>))

\* C21 witness: with q then p registered under Any and a failing processor
\* after a passing one under document, process on a document invoked the
\* two of document and stopped
ProcessInRegistrationOrderWitness ==
    /\ registry.last.rtype = "document"
    /\ RegisteredUnder("any") # <<>>
    /\ Len(RegisteredUnder("document")) = 2
    /\ ~RegisteredUnder("document")[1].fails
    /\ RegisteredUnder("document")[2].fails
    /\ registry.last.invoked = RegisteredUnder("document")
    /\ ~Unwrap(registry.last.result).ok

(***************************************************************************)
(* Properties of the service with one caller (Spec).  In a state where     *)
(* call.op is not "none" a handler has just returned: call.before and      *)
(* call.at are the cache and the clock it started from, cache and now the  *)
(* ones it left.                                                           *)
(***************************************************************************)
HasId(c, id) == \E i \in 1..Len(c.resources) : c.resources[i].id = id

\* The reply is a success whose body is the JSON text of a value of `kind`
Answered(reply, kind) ==
    /\ reply.sent
    /\ reply.status \in {200, 201, 202}
    /\ reply.readable
    /\ \E v \in ValuesOf(kind) : ToJson(v) = reply.body

KindOf(op) ==
    CASE op = "list" -> "list" [] op = "delete" -> "bool" [] OTHER -> "resource"

\* C2: get is answered from the cache, with no upstream request, exactly
\* when the cache is not stale and holds the id; otherwise it sends one GET
\* for resources/{id} and returns what that request gave.
GetFromCacheOrUpstream ==
    call.op = "get" =>
        LET hit == ~IsStale(call.before, call.at) /\ HasId(call.before, call.id)
        IN  /\ (call.sent = <<>>) <=> hit
            /\ hit => /\ call.result.ok
                      /\ call.result.val.kind = "resource"
                      /\ call.result.val.items[1].id = call.id
                      /\ \E i \in 1..Len(call.before.resources) :
                            call.before.resources[i] = call.result.val.items[1]
            /\ ~hit => /\ Len(call.sent) = 1
                       /\ call.sent[1].method = "GET"
                       /\ call.sent[1].url = config.api_url \o <<"/", "resources/", call.id>>
                       /\ call.result.ok <=> Answered(call.reply, "resource")
                       /\ call.result.ok => ToJson(call.result.val) = call.reply.body

\* C2 witness: the cache is stale and still holds the id, and get went upstream
GetFromCacheOrUpstreamWitness ==
    /\ call.op = "get"
    /\ IsStale(call.before, call.at)
    /\ HasId(call.before, call.id)
    /\ Len(call.sent) = 1
    /\ call.result.ok

\* C3: list goes upstream only when the cache is stale; a successful fetch
\* replaces the cached list by the response and sets the timestamp to now, so
\* the cache is fresh right after; a list on a fresh cache sends nothing and
\* leaves the cache as it was.
ListRefreshesWhenStale ==
    call.op = "list" =>
        /\ call.sent # <<>> => IsStale(call.before, call.at)
        /\ (IsStale(call.before, call.at) /\ call.result.ok) =>
                /\ ToJson(ResourceList(cache.resources)) = call.reply.body
                /\ cache.last_updated = now
                /\ ~IsStale(cache, now)
        /\ ~IsStale(call.before, call.at) => (call.sent = <<>> /\ cache = call.before)

\* C3 witness: a stale list fetched two resources that replaced another cached list
ListRefreshesWhenStaleWitness ==
    /\ call.op = "list"
    /\ IsStale(call.before, call.at)
    /\ call.result.ok
    /\ call.before.resources = <<ResA>>
    /\ cache.resources = <<ResB, ResB>>
    /\ now > call.at

\* C4: get leaves the cached list and the timestamp as they were, whatever
\* its outcome, and only list makes a stale cache fresh again.
GetLeavesCache ==
    /\ call.op = "get" => cache = call.before
    /\ (call.op # "none" /\ IsStale(call.before, call.at) /\ ~IsStale(cache, now))
            => call.op = "list"

\* C4 witness: get fetched a resource the cache did not hold, and it still does not
GetLeavesCacheWitness ==
    /\ call.op = "get"
    /\ Len(call.sent) = 1
    /\ call.result.ok
    /\ ~HasId(cache, call.id)
    /\ cache.resources # <<>>

\* C5: after a create, update or delete that returns Ok the timestamp is the
\* epoch and the cache is stale; the timestamp stays there until a list
\* refreshes it, and a get or a list that finds it there goes upstream.
WriteInvalidates ==
    /\ (call.op \in {"create", "update", "delete"} /\ call.result.ok) =>
            (cache.last_updated = Epoch /\ IsStale(cache, now))
    /\ (call.op \in {"create", "update", "delete", "get"}
            /\ call.before.last_updated = Epoch) => cache.last_updated = Epoch
    /\ (call.op = "list" /\ call.before.last_updated = Epoch /\ ~call.result.ok)
            => cache.last_updated = Epoch
    /\ (call.op \in {"get", "list"} /\ call.before.last_updated = Epoch)
            => Len(call.sent) = 1

\* C5 witness: a delete that returned Ok made a fresh cache stale
WriteInvalidatesWitness ==
    /\ call.op = "delete"
    /\ call.result.ok
    /\ ~IsStale(call.before, call.at)
    /\ call.before.resources # <<>>
    /\ IsStale(cache, now)

\* C6, as claimed: the cache is stale exactly when its age is above 5 minutes,
\* so a list at every age above 5 minutes refetches and at no other age.
StaleAboveFiveMinutes ==
    call.op = "list" =>
        ((call.sent # <<>>) <=>
            (call.at - call.before.last_updated > StaleMinutes * SecondsPerMinute))

\* C8, as claimed: a 404 of upstream makes every operation return NotFound.
NotFoundForEvery404 ==
    (call.op # "none" /\ call.reply.sent /\ call.reply.status = 404)
        => call.result.err.tag = "NotFound"

\* C8, amended: a 404 of upstream makes get, update and delete return
\* NotFound("Resource not found: {id}"); create and list return it as
\* ExternalService.
NotFoundFor404 ==
    (call.op # "none" /\ call.reply.sent /\ call.reply.status = 404) =>
        /\ ~call.result.ok
        /\ call.op \in {"get", "update", "delete"} =>
                call.result.err = NotFound(<<"Resource not found: ", call.id>>)
        /\ call.op \in {"create", "list"} => call.result.err.tag = "ExternalService"

\* C8 witness: upstream answered 404 to get, which returned NotFound
NotFoundFor404Witness ==
    /\ call.op = "get"
    /\ call.reply.sent
    /\ call.reply.status = 404
    /\ call.result.err.tag = "NotFound"

\* C9: a call sends at most one request upstream, and when that request
\* fails the call returns an error: no second request, no cached data.
OneRequestNoFallback ==
    call.op # "none" =>
        /\ Len(call.sent) <= 1
        /\ (Len(call.sent) = 1 /\ ~Answered(call.reply, KindOf(call.op)))
                => ~call.result.ok

\* C9 witness: a get on a stale cache that holds the id failed upstream and
\* returned the error
OneRequestNoFallbackWitness ==
    /\ call.op = "get"
    /\ Len(call.sent) = 1
    /\ ~call.reply.sent
    /\ HasId(call.before, call.id)
    /\ ~call.result.ok

\* The endpoint of a request: its url after "{api_url}/"
EndpointOf(request) ==
    IF SubSeq(request.url, 1, Len(config.api_url) + 1) = config.api_url \o <<"/">>
    THEN SubSeq(request.url, Len(config.api_url) + 2, Len(request.url))
    ELSE <<>>

UnderResources(request) ==
    /\ EndpointOf(request) # <<>>
    /\ \/ EndpointOf(request)[1] = "resources/"
       \/ /\ EndpointOf(request)[1] = "resources"
          /\ Len(EndpointOf(request)) > 1 => EndpointOf(request)[2] = "?"

HasJsonBody(request) ==
    /\ IsSome(request.body)
    /\ <<"Content-Type", <<"application/json">>>> \in request.headers

\* C11, as claimed: every request of the service goes to an endpoint under
\* resources, and every request of create, update and delete has a JSON body.
ResourcesPathJsonBodies ==
    \A i \in 1..Len(call.sent) :
        /\ UnderResources(call.sent[i])
        /\ call.op \in {"create", "update", "delete"} => HasJsonBody(call.sent[i])

\* C11, amended: every request of the service goes to an endpoint under
\* resources; create and update POST the resource they were given as a JSON
\* body; delete, like get and list, sends a GET without a body, to
\* resources/{id}/delete.
ResourcesPathWriteBodies ==
    \A i \in 1..Len(call.sent) :
        /\ UnderResources(call.sent[i])
        /\ call.op \in {"create", "update"} =>
                /\ call.sent[i].method = "POST"
                /\ HasJsonBody(call.sent[i])
                /\ call.sent[i].body = Some(ResourceJson(Unwrap(call.arg)))
        /\ call.op \in {"get", "list", "delete"} =>
                /\ call.sent[i].method = "GET"
                /\ call.sent[i].body = None
        /\ call.op = "delete" =>
                EndpointOf(call.sent[i]) = <<"resources/", call.id, "/delete">>

\* C11 witness: update posted the document it was given to resources/b
ResourcesPathWriteBodiesWitness ==
    /\ call.op = "update"
    /\ Len(call.sent) = 1
    /\ EndpointOf(call.sent[1]) = <<"resources/", "b">>
    /\ call.sent[1].body = Some(ResourceJson(ResB))

\* The checks of resource data, in their order: TRUE where the data fails
DataFailures(data) ==
    <<data.name = <<>>,
      Len(data.name) > 100,
      data.resource_type = "document" /\ "content" \notin data.data,
      data.resource_type = "user" /\ "email" \notin data.data>>

FailsValidation(data) == \E i \in 1..4 : DataFailures(data)[i]

\* C19: create and update with data that fails validation, and update with a
\* resource whose id is not the id argument, return a Validation error, send
\* nothing upstream and leave the cache as it was; in update the error of
\* the data comes before the one of the ids.
ValidationBeforeSend ==
    call.op \in {"create", "update"} =>
        LET resource == Unwrap(call.arg)
            mismatch == call.op = "update" /\ resource.id # call.id
        IN  /\ (FailsValidation(resource) \/ mismatch) =>
                    /\ ~call.result.ok
                    /\ call.result.err.tag = "Validation"
                    /\ call.sent = <<>>
                    /\ cache = call.before
            /\ mismatch =>
                    (call.result.err.msg = <<"Resource ID mismatch">>
                        <=> ~FailsValidation(resource))

\* C19 witness: update with an empty name and another id than its argument
\* returned the error of the name and left a cache of two resources alone
ValidationBeforeSendWitness ==
    /\ call.op = "update"
    /\ Unwrap(call.arg).name = <<>>
    /\ Unwrap(call.arg).id # call.id
    /\ call.result.err = Validation(<<"Resource name cannot be empty">>)
    /\ call.sent = <<>>
    /\ Len(cache.resources) = 2

\* C20: validate accepts the data exactly when none of the four checks
\* fails: name empty, name longer than 100, Document without "content", User
\* without "email"; when some fail, the message is the one of the first.
ValidateInOrder ==
    call.op \in {"create", "update"} =>
        LET resource == Unwrap(call.arg)
            failed == {i \in 1..4 : DataFailures(resource)[i]}
            first == CHOOSE i \in failed : \A j \in failed : i <= j
            messages == <<"Resource name cannot be empty",
                          "Resource name too long (max 100 characters)",
                          "Document must have content",
                          "User must have an email">>
            rejected == /\ call.result.err.tag = "Validation"
                        /\ call.result.err.msg # <<"Resource ID mismatch">>
        IN  /\ rejected <=> failed # {}
            /\ failed # {} => call.result = CoreErr(Validation(<<messages[first]>>))

\* C20 witness: a Document with an empty name and without content was
\* rejected for its name
ValidateInOrderWitness ==
    /\ call.op = "create"
    /\ Unwrap(call.arg).name = <<>>
    /\ Unwrap(call.arg).resource_type = "document"
    /\ "content" \notin Unwrap(call.arg).data
    /\ call.result = CoreErr(Validation(<<"Resource name cannot be empty">>))

\* A list call has just put the answer of upstream in the cache
Refreshed == call.op = "list" /\ call.sent # <<>> /\ call.result.ok

\* C23: the list that a refresh puts in the cache is the complete list of
\* upstream: of every list upstream can hold, with the filter and then the
\* limit of the request applied as upstream applies them, only the answer
\* itself gives that answer, so that a later list served from the cache
\* filters and limits the complete list.
CacheHoldsFullList ==
    Refreshed =>
        \A full \in KnownLists :
            Take(FilterByName(full, call.filter), call.limit) = cache.resources
                => full = cache.resources

\* C24: list returns from the cache only after a list has fetched from
\* upstream and stored the answer: a list call that sends nothing is not
\* looking at the cache as ResourceService::new made it (a refresh leaves a
\* later timestamp, an invalidation the epoch).
ListServedAfterFetch ==
    (call.op = "list" /\ call.sent = <<>>) => call.before # CacheNew(StartTime)

(***************************************************************************)
(* Properties of the service with concurrent callers (TaskSpec)            *)
(***************************************************************************)
ReadingCache == {"get_check", "list_check"}
WritingCache == {"invalidate_set", "list_update"}

\* C7: the cache lock is held by any number of readers (the cache checks of
\* get and list) or by exactly one writer (invalidate_cache, the refresh of
\* list), never by a writer with a reader or with another writer; a task
\* reads the cache only as a reader, and the cache changes only in a step of
\* the task that holds the lock as the writer.
CacheLockExclusion ==
    /\ [](/\ Cardinality(lock.writer) <= 1
          /\ lock.writer # {} => lock.readers = {}
          /\ \A p \in Tasks :
                /\ pc[p] \in ReadingCache <=> p \in lock.readers
                /\ pc[p] \in WritingCache <=> p \in lock.writer)
    /\ [][cache' # cache =>
            \E p \in Tasks : /\ lock.writer = {p}
                             /\ lock.readers = {}
                             /\ pc[p] \in WritingCache
                             /\ pc'[p] = "idle"]_vars

\* C7 witness: two tasks hold the lock as readers at once, on a cache the
\* clock has made stale
CacheLockExclusionWitness ==
    /\ Cardinality(lock.readers) >= 2
    /\ IsStale(cache, now)

\* A step in which get or list returns what is in the cache
ServedFromCache(p) ==
    /\ pc[p] \in {"get_check", "list_check"}
    /\ pc'[p] = "idle"

\* C22: no get or list that starts after a create, update or delete has
\* returned is served from a cached list that upstream answered before that
\* write: a refresh of list that runs beside the write does not store its
\* older answer, and make the cache fresh, after the invalidation.
NoReadBehindWrite ==
    [][\A p \in Tasks : ServedFromCache(p) => ~task[p].start]_vars

====
